---- MODULE Spec2Model ----
(***************************************************************************)
(* A model of the command interpreter of the FL Studio automation tool     *)
(* (src/src/command_parser.py) and of its beat generator                   *)
(* (src/src/music_generator.py, src/src/pattern_builder.py).  Text is a    *)
(* TLA+ string; the regular expressions of CommandParser.__init__ are      *)
(* regex syntax trees that a backtracking matcher with Python's priority   *)
(* order (greedy, lazy, leftmost alternative first) runs over the text,    *)
(* character by character.  The generator's floats are exact fractions,    *)
(* and the random module is a tape of draws that every call consumes from. *)
(***************************************************************************)
EXTENDS Integers, Sequences, FiniteSets, TLC

VARIABLES
    line,     \* the text handed to parse
    parsed,   \* None, or the dictionary parse returned
    exc,      \* "", or the exception parse raised
    branch,   \* "", or the branch parse took: the type it classified to
    pc,       \* "input" before the call of parse, "done" after it
    request,  \* None, or the call made on the generator: its name and arguments
    rng,      \* the random module: the draws it hands out and its position
    pattern_builder,  \* MusicGenerator.pattern_builder: None or a PatternBuilder
    results,  \* what the calls made so far returned or raised, in order
    files,    \* the file system: the paths that exist
    calls,    \* what the command in hand did so far: collaborator calls and reports
    inputs    \* the lines the console has yet to hand to input()

parserVars == <<line, parsed, exc, branch, pc>>

generatorVars == <<request, rng, pattern_builder, results>>

hostVars == <<files, calls, inputs>>

vars == <<line, parsed, exc, branch, pc, request, rng, pattern_builder, results,
          files, calls, inputs>>

(***************************************************************************)
(* Bounds of the checked inputs.                                           *)
(***************************************************************************)
\* A checked text is at most MaxWords lexicon entries joined by one space.
MaxWords == 3

\* A generated pattern spans at most MaxBars bars.
MaxBars == 4

\* The random module hands out a cycle of TapeLen draws.
TapeLen == 3

\* A pattern handed to combine_patterns holds at most MaxEvents events.
MaxEvents == 2

\* validate_sample_path is handed at most MaxDirs search directories.
MaxDirs == 2

\* process_command is handed at most MaxOps operations.
MaxOps == 3

\* The console hands an interactive session at most MaxInputs lines.
MaxInputs == 2

(***************************************************************************)
(* Python values.                                                          *)
(***************************************************************************)
\* None is the empty sequence, any other value v is <<v>>.
None == <<>>

Some(v) == <<v>>

\* Python truthiness of an optional integer: None and 0 are falsy.
Truthy(o) == o # None /\ o[1] # 0

\* s[i], 0-based as in Python.
CharAt(s, i) == SubSeq(s, i + 1, i + 1)

\* s[a:b]: a slice ends at the end of s at the latest.
Slice(s, a, b) == SubSeq(s, a + 1, IF b > Len(s) THEN Len(s) ELSE b)

\* sub in s
Contains(s, sub) ==
    \E i \in 0..(Len(s) - Len(sub)) : Slice(s, i, i + Len(sub)) = sub

UpperLetters == "ABCDEFGHIJKLMNOPQRSTUVWXYZ"

LowerLetters == "abcdefghijklmnopqrstuvwxyz"

DigitChars == "0123456789"

\* The 0-based index of character c in the string t, or -1.
IndexIn(t, c) ==
    IF \E i \in 0..(Len(t) - 1) : CharAt(t, i) = c
    THEN CHOOSE i \in 0..(Len(t) - 1) : CharAt(t, i) = c
    ELSE -1

\* The characters of a string, as a set.
CharsOf(t) == {CharAt(t, i) : i \in 0..(Len(t) - 1)}

\* The lower-case letter of each upper-case letter, and the reverse.
LowerOf == [c \in CharsOf(UpperLetters) |-> CharAt(LowerLetters, IndexIn(UpperLetters, c))]

UpperOf == [c \in CharsOf(LowerLetters) |-> CharAt(UpperLetters, IndexIn(LowerLetters, c))]

Digits == CharsOf(DigitChars)

lowerChar(c) == IF c \in DOMAIN LowerOf THEN LowerOf[c] ELSE c

upperChar(c) == IF c \in DOMAIN UpperOf THEN UpperOf[c] ELSE c

RECURSIVE lower(_)
\* str.lower()
lower(s) ==
    IF s = "" THEN ""
    ELSE lowerChar(CharAt(s, 0)) \o lower(Slice(s, 1, Len(s)))

RECURSIVE upper(_)
\* str.upper()
upper(s) ==
    IF s = "" THEN ""
    ELSE upperChar(CharAt(s, 0)) \o upper(Slice(s, 1, Len(s)))

\* The characters str.strip() removes and \s matches.
IsSpace(c) == c \in {" ", "\t", "\n", "\r", "\f"}

RECURSIVE lstrip(_)
lstrip(s) ==
    IF s # "" /\ IsSpace(CharAt(s, 0)) THEN lstrip(Slice(s, 1, Len(s))) ELSE s

RECURSIVE rstrip(_)
rstrip(s) ==
    IF s # "" /\ IsSpace(CharAt(s, Len(s) - 1))
    THEN rstrip(Slice(s, 0, Len(s) - 1))
    ELSE s

\* str.strip()
strip(s) == rstrip(lstrip(s))

RECURSIVE replace(_, _, _)
\* str.replace(old, new) for a one-character old
replace(s, old, new) ==
    IF s = "" THEN ""
    ELSE (IF CharAt(s, 0) = old THEN new ELSE CharAt(s, 0))
             \o replace(Slice(s, 1, Len(s)), old, new)

IsDigit(c) == c \in Digits

RECURSIVE NatOf(_)
\* The value of a non-empty string of decimal digits.
NatOf(s) ==
    IF s = "" THEN 0
    ELSE 10 * NatOf(Slice(s, 0, Len(s) - 1))
             + IndexIn(DigitChars, CharAt(s, Len(s) - 1))

\* int(s) for the texts the patterns capture: -?\d+
int(s) ==
    IF CharAt(s, 0) = "-" THEN 0 - NatOf(Slice(s, 1, Len(s))) ELSE NatOf(s)

RECURSIVE CountChar(_, _)
CountChar(s, c) ==
    IF s = "" THEN 0
    ELSE (IF CharAt(s, 0) = c THEN 1 ELSE 0) + CountChar(Slice(s, 1, Len(s)), c)

RECURSIVE Pow10(_)
Pow10(n) == IF n = 0 THEN 1 ELSE 10 * Pow10(n - 1)

\* float(s) for a text of [0-9.]+ : the number num/den, or ValueError when
\* s holds more than one dot or no digit.
RECURSIVE GCD(_, _)
GCD(a, b) == IF b = 0 THEN a ELSE GCD(b, a % b)

\* The number n/d in lowest terms: equal numbers are equal values.
Number(n, d) == [num |-> n \div GCD(n, d), den |-> d \div GCD(n, d)]

\* What a call ends in: a returned value, or a raised exception.
Return(v) == [raised |-> "", value |-> v]

Raise(e) == [raised |-> e]

\* float(s) for a text of [0-9.]+ : the number it denotes, or ValueError when
\* s holds more than one dot or no digit.
float(s) ==
    LET dots == CountChar(s, ".")
        dot  == IndexIn(s, ".")
    IN  IF dots > 1 \/ Len(s) = dots
        THEN Raise("ValueError")
        ELSE IF dots = 0
        THEN Return(Number(NatOf(s), 1))
        ELSE Return(Number(NatOf(Slice(s, 0, dot) \o Slice(s, dot + 1, Len(s))),
                           Pow10(Len(s) - dot - 1)))

(***************************************************************************)
(* Regular expressions (Python's re): syntax trees and a backtracking      *)
(* matcher.  M(re, s, st) is the sequence of the match states re can end   *)
(* in when started in state st of text s, in the order in which Python's   *)
(* matcher tries them; re.search takes the first one of the leftmost       *)
(* start position that has any.                                            *)
(***************************************************************************)
\* A literal text.
Lit(t) == [t |-> "lit", s |-> t]

\* cls+ / cls* / cls+? : a repeated character class, at least min times.
Rep(cls, min, greedy) == [t |-> "rep", cls |-> cls, min |-> min, greedy |-> greedy]

\* One character of a class.
One(cls) == [t |-> "one", cls |-> cls]

\* r1 r2 ... rn
Cat(rs) == [t |-> "cat", rs |-> rs]

\* r1|r2|...|rn
Alt(rs) == [t |-> "alt", rs |-> rs]

\* (?:r)? and r? : greedy optional.
Opt(r) == [t |-> "opt", r |-> r]

\* (r), capture group n.
Grp(n, r) == [t |-> "grp", n |-> n, r |-> r]

\* Character classes: \s, \d, . (any character but a newline), [0-9.],
\* [A-G], [#b], and the single characters - and m.
InClass(cls, c) ==
    CASE cls = "\\s"     -> IsSpace(c)
      [] cls = "\\d"     -> IsDigit(c)
      [] cls = "."       -> c # "\n"
      [] cls = "[0-9.]"  -> IsDigit(c) \/ c = "."
      [] cls = "[A-G]"   -> IndexIn("ABCDEFG", c) >= 0
      [] cls = "[#b]"    -> c \in {"#", "b"}
      [] OTHER           -> c = cls

RECURSIVE RunLen(_, _, _)
\* How many characters of class cls follow position pos in s.
RunLen(cls, s, pos) ==
    IF pos < Len(s) /\ InClass(cls, CharAt(s, pos))
    THEN 1 + RunLen(cls, s, pos + 1)
    ELSE 0

\* A match state: the position reached and the spans of groups 1 and 2
\* (None while a group has not taken part in the match).
MatchState(pos) == [pos |-> pos, g |-> <<None, None>>]

RECURSIVE M(_, _, _), MAll(_, _, _), MAlt(_, _, _, _), MCat(_, _, _, _)
M(re, s, st) ==
    CASE re.t = "lit" ->
            IF Slice(s, st.pos, st.pos + Len(re.s)) = re.s
            THEN <<[st EXCEPT !.pos = @ + Len(re.s)]>>
            ELSE <<>>
      [] re.t = "one" ->
            IF st.pos < Len(s) /\ InClass(re.cls, CharAt(s, st.pos))
            THEN <<[st EXCEPT !.pos = @ + 1]>>
            ELSE <<>>
      [] re.t = "rep" ->
            LET k == RunLen(re.cls, s, st.pos)
            IN  IF k < re.min THEN <<>>
                ELSE [i \in 1..(k - re.min + 1) |->
                        [st EXCEPT !.pos = @ + (IF re.greedy THEN k - i + 1
                                                ELSE re.min + i - 1)]]
      [] re.t = "cat" -> MCat(re.rs, 1, s, <<st>>)
      [] re.t = "alt" -> MAlt(re.rs, 1, s, st)
      [] re.t = "opt" -> M(re.r, s, st) \o <<st>>
      [] re.t = "grp" ->
            LET ends == M(re.r, s, st)
            IN  [i \in 1..Len(ends) |->
                    [ends[i] EXCEPT !.g[re.n] = Some(<<st.pos, ends[i].pos>>)]]

\* Every continuation of every state of sts, in order.
MAll(re, s, sts) ==
    IF sts = <<>> THEN <<>>
    ELSE M(re, s, Head(sts)) \o MAll(re, s, Tail(sts))

MAlt(rs, i, s, st) ==
    IF i > Len(rs) THEN <<>>
    ELSE M(rs[i], s, st) \o MAlt(rs, i + 1, s, st)

MCat(rs, i, s, sts) ==
    IF i > Len(rs) \/ sts = <<>> THEN sts
    ELSE MCat(rs, i + 1, s, MAll(rs[i], s, sts))

RECURSIVE SearchFrom(_, _, _)
SearchFrom(re, s, start) ==
    IF start > Len(s) THEN None
    ELSE LET ms == M(re, s, MatchState(start))
         IN  IF ms # <<>>
             THEN Some([start |-> start, end |-> ms[1].pos, g |-> ms[1].g])
             ELSE SearchFrom(re, s, start + 1)

\* re.search(pattern, s): None, or the match object.
search(re, s) == SearchFrom(re, s, 0)

\* match.group(n): None when the group took no part in the match.
group(s, m, n) ==
    IF m.g[n] = None THEN None ELSE Some(Slice(s, m.g[n][1][1], m.g[n][1][2]))

(***************************************************************************)
(* CommandParser.__init__: the patterns.                                   *)
(***************************************************************************)
patterns ==
    [sample_process |->
        \* (?:take|load|use|get)\s+(.+?\.(?:wav|mp3|flac|aiff))
        Cat(<<Alt(<<Lit("take"), Lit("load"), Lit("use"), Lit("get")>>),
              Rep("\\s", 1, TRUE),
              Grp(1, Cat(<<Rep(".", 1, FALSE), Lit("."),
                           Alt(<<Lit("wav"), Lit("mp3"), Lit("flac"),
                                 Lit("aiff")>>)>>))>>),
     pitch_shift |->
        \* pitch\s+(?:down|up)?\s*(-?\d+)\s*(?:semitones?|st)?
        Cat(<<Lit("pitch"), Rep("\\s", 1, TRUE),
              Opt(Alt(<<Lit("down"), Lit("up")>>)),
              Rep("\\s", 0, TRUE),
              Grp(1, Cat(<<Opt(Lit("-")), Rep("\\d", 1, TRUE)>>)),
              Rep("\\s", 0, TRUE),
              Opt(Alt(<<Cat(<<Lit("semitone"), Opt(Lit("s"))>>), Lit("st")>>))>>),
     time_stretch |->
        \* stretch\s+(?:by\s+)?([0-9.]+)
        Cat(<<Lit("stretch"), Rep("\\s", 1, TRUE),
              Opt(Cat(<<Lit("by"), Rep("\\s", 1, TRUE)>>)),
              Grp(1, Rep("[0-9.]", 1, TRUE))>>),
     filter |->
        \* (lowpass|highpass|bandpass)\s+(?:filter\s+)?(?:at\s+)?(\d+)\s*(?:hz)?
        Cat(<<Grp(1, Alt(<<Lit("lowpass"), Lit("highpass"), Lit("bandpass")>>)),
              Rep("\\s", 1, TRUE),
              Opt(Cat(<<Lit("filter"), Rep("\\s", 1, TRUE)>>)),
              Opt(Cat(<<Lit("at"), Rep("\\s", 1, TRUE)>>)),
              Grp(2, Rep("\\d", 1, TRUE)),
              Rep("\\s", 0, TRUE),
              Opt(Lit("hz"))>>),
     slice |->
        \* (?:slice|chop)\s+(?:into\s+)?(\d+)\s*(?:slices?|parts?)?
        Cat(<<Alt(<<Lit("slice"), Lit("chop")>>), Rep("\\s", 1, TRUE),
              Opt(Cat(<<Lit("into"), Rep("\\s", 1, TRUE)>>)),
              Grp(1, Rep("\\d", 1, TRUE)),
              Rep("\\s", 0, TRUE),
              Opt(Alt(<<Cat(<<Lit("slice"), Opt(Lit("s"))>>),
                        Cat(<<Lit("part"), Opt(Lit("s"))>>)>>))>>),
     insert_position |->
        \* insert\s+(?:at\s+)?(?:bar\s+)?(\d+)(?:\s+beat\s+)?(\d+)?
        Cat(<<Lit("insert"), Rep("\\s", 1, TRUE),
              Opt(Cat(<<Lit("at"), Rep("\\s", 1, TRUE)>>)),
              Opt(Cat(<<Lit("bar"), Rep("\\s", 1, TRUE)>>)),
              Grp(1, Rep("\\d", 1, TRUE)),
              Opt(Cat(<<Rep("\\s", 1, TRUE), Lit("beat"), Rep("\\s", 1, TRUE)>>)),
              Opt(Grp(2, Rep("\\d", 1, TRUE)))>>),
     measure_position |->
        \* (?:at\s+)?(?:the\s+)?(?:end\s+of\s+)?(?:measure|bar)\s+(\d+)
        Cat(<<Opt(Cat(<<Lit("at"), Rep("\\s", 1, TRUE)>>)),
              Opt(Cat(<<Lit("the"), Rep("\\s", 1, TRUE)>>)),
              Opt(Cat(<<Lit("end"), Rep("\\s", 1, TRUE), Lit("of"),
                        Rep("\\s", 1, TRUE)>>)),
              Alt(<<Lit("measure"), Lit("bar")>>),
              Rep("\\s", 1, TRUE),
              Grp(1, Rep("\\d", 1, TRUE))>>),
     beat_position |->
        \* (?:beat|count)\s+(\d+)
        Cat(<<Alt(<<Lit("beat"), Lit("count")>>), Rep("\\s", 1, TRUE),
              Grp(1, Rep("\\d", 1, TRUE))>>),
     create_beat |->
        \* create\s+(?:a\s+)?(.+?)\s+(?:style\s+)?beat
        Cat(<<Lit("create"), Rep("\\s", 1, TRUE),
              Opt(Cat(<<Lit("a"), Rep("\\s", 1, TRUE)>>)),
              Grp(1, Rep(".", 1, FALSE)),
              Rep("\\s", 1, TRUE),
              Opt(Cat(<<Lit("style"), Rep("\\s", 1, TRUE)>>)),
              Lit("beat")>>),
     genre |->
        \* (memphis|trap|lofi|boom\s*bap|drill)
        Grp(1, Alt(<<Lit("memphis"), Lit("trap"), Lit("lofi"),
                     Cat(<<Lit("boom"), Rep("\\s", 0, TRUE), Lit("bap")>>),
                     Lit("drill")>>)),
     with_808 |->
        \* with\s+808s?
        Cat(<<Lit("with"), Rep("\\s", 1, TRUE), Lit("808"), Opt(Lit("s"))>>),
     bpm |->
        \* (?:at\s+)?(\d+)\s*bpm
        Cat(<<Opt(Cat(<<Lit("at"), Rep("\\s", 1, TRUE)>>)),
              Grp(1, Rep("\\d", 1, TRUE)),
              Rep("\\s", 0, TRUE), Lit("bpm")>>),
     key |->
        \* (?:in\s+)?(?:key\s+of\s+)?([A-G][#b]?m?)
        Cat(<<Opt(Cat(<<Lit("in"), Rep("\\s", 1, TRUE)>>)),
              Opt(Cat(<<Lit("key"), Rep("\\s", 1, TRUE), Lit("of"),
                        Rep("\\s", 1, TRUE)>>)),
              Grp(1, Cat(<<One("[A-G]"), Opt(One("[#b]")), Opt(One("m"))>>))>>),
     bars |->
        \* (\d+)\s+bars?
        Cat(<<Grp(1, Rep("\\d", 1, TRUE)), Rep("\\s", 1, TRUE), Lit("bar"),
              Opt(Lit("s"))>>)]

(***************************************************************************)
(* CommandParser._parse_sample_command, extraction by extraction.          *)
(***************************************************************************)
\* Lines 68-71: the sample path, None when the pattern does not match.
sample_path_of(command) ==
    LET sample_match == search(patterns.sample_process, command)
    IN  IF sample_match # None THEN group(command, sample_match[1], 1) ELSE None

\* Lines 73-83: the pitch shift operation, if any.
pitch_shift_ops(command) ==
    LET pitch_match == search(patterns.pitch_shift, command)
        semitones   == int(group(command, pitch_match[1], 1)[1])
    IN  IF pitch_match # None
        THEN <<[type |-> "pitch_shift",
                semitones |-> IF Contains(command, "pitch down") /\ semitones > 0
                              THEN 0 - semitones
                              ELSE semitones]>>
        ELSE <<>>

\* Lines 85-91: the time stretch operation, if any; float() may raise.
time_stretch_ops(command) ==
    LET stretch_match == search(patterns.time_stretch, command)
        rate          == float(group(command, stretch_match[1], 1)[1])
    IN  IF stretch_match # None
        THEN IF rate.raised # ""
             THEN Raise(rate.raised)
             ELSE Return(<<[type |-> "time_stretch", rate |-> rate.value]>>)
        ELSE Return(<<>>)

\* Lines 93-100: the filter operation, if any.
filter_ops(command) ==
    LET filter_match == search(patterns.filter, command)
    IN  IF filter_match # None
        THEN <<[type |-> "filter",
                filter_type |-> group(command, filter_match[1], 1)[1],
                cutoff |-> int(group(command, filter_match[1], 2)[1])]>>
        ELSE <<>>

\* Lines 102-108: the slice operation, if any.
slice_ops(command) ==
    LET slice_match == search(patterns.slice, command)
    IN  IF slice_match # None
        THEN <<[type |-> "slice",
                num_slices |-> int(group(command, slice_match[1], 1)[1])]>>
        ELSE <<>>

\* Lines 110-123: the insert position, from the defaults (None, 1).
insert_position_of(command) ==
    LET insert_match  == search(patterns.insert_position, command)
        bar1  == IF insert_match # None
                 THEN Some(int(group(command, insert_match[1], 1)[1]))
                 ELSE None
        beat1 == IF insert_match # None
                     /\ group(command, insert_match[1], 2) # None
                 THEN int(group(command, insert_match[1], 2)[1])
                 ELSE 1
        measure_match == search(patterns.measure_position, command)
        beat_match    == search(patterns.beat_position, command)
    IN  IF measure_match # None /\ ~Truthy(bar1)
        THEN [insert_bar  |-> Some(int(group(command, measure_match[1], 1)[1])),
              insert_beat |-> IF beat_match # None
                              THEN int(group(command, beat_match[1], 1)[1])
                              ELSE beat1]
        ELSE [insert_bar |-> bar1, insert_beat |-> beat1]

\* A faulty variant of operations_of: the slice is appended before the filter.
operations_slice_before_filter(command) ==
    LET stretch == time_stretch_ops(command)
    IN  IF stretch.raised # ""
        THEN Raise(stretch.raised)
        ELSE Return(pitch_shift_ops(command) \o stretch.value
                        \o slice_ops(command) \o filter_ops(command))

\* A faulty variant of operations_of: the operations are listed in the order
\* in which their phrases start in the text.
operations_in_text_order(command) ==
    LET stretch == time_stretch_ops(command)
        found   == <<pitch_shift_ops(command),
                     IF stretch.raised = "" THEN stretch.value ELSE <<>>,
                     filter_ops(command), slice_ops(command)>>
        pats    == <<patterns.pitch_shift, patterns.time_stretch,
                     patterns.filter, patterns.slice>>
        present == {k \in 1..4 : found[k] # <<>>}
        start(k) == search(pats[k], command)[1].start
        place(k) == Cardinality({j \in present : start(j) <= start(k)})
    IN  IF stretch.raised # ""
        THEN Raise(stretch.raised)
        ELSE Return([i \in 1..Cardinality(present) |->
                        found[CHOOSE k \in present : place(k) = i][1]])

\* Lines 73-108: each extraction appends in the order of the code.
operations_of(command) ==
    LET stretch == time_stretch_ops(command)
    IN  IF stretch.raised # ""
        THEN Raise(stretch.raised)
        ELSE Return(pitch_shift_ops(command) \o stretch.value
                        \o filter_ops(command) \o slice_ops(command))

parse_sample_command(command) ==
    LET operations == operations_of(command)
        position   == insert_position_of(command)
    IN  IF operations.raised # ""
        THEN Raise(operations.raised)
        ELSE Return([type        |-> "sample_process",
                     sample_path |-> sample_path_of(command),
                     operations  |-> operations.value,
                     insert_bar  |-> position.insert_bar,
                     insert_beat |-> position.insert_beat])

(***************************************************************************)
(* CommandParser._parse_generate_command.                                  *)
(***************************************************************************)
RECURSIVE FirstIn(_, _, _)
\* for genre in names: if genre in description: take it and break
FirstIn(names, i, description) ==
    IF i > Len(names) THEN None
    ELSE IF Contains(description, names[i]) THEN Some(names[i])
    ELSE FirstIn(names, i + 1, description)

\* Lines 138-156.
genre_of(command) ==
    LET genre_match == search(patterns.genre, command)
        beat_match  == search(patterns.create_beat, command)
        found ==
            IF genre_match # None
            THEN Some(replace(group(command, genre_match[1], 1)[1], " ", "_"))
            ELSE IF Contains(command, "beat") /\ beat_match # None
            THEN FirstIn(<<"memphis", "trap", "lofi", "drill">>, 1,
                         group(command, beat_match[1], 1)[1])
            ELSE None
    IN  IF found = None \/ found = Some("") THEN "trap" ELSE found[1]

\* Lines 158-161.
bpm_of(command) ==
    LET bpm_match == search(patterns.bpm, command)
    IN  IF bpm_match # None
        THEN Some(int(group(command, bpm_match[1], 1)[1]))
        ELSE None

\* Lines 163-166.
key_of(command) ==
    LET key_match == search(patterns.key, command)
    IN  IF key_match # None
        THEN upper(group(command, key_match[1], 1)[1])
        ELSE "C"

\* Lines 168-171.
bars_of(command) ==
    LET bars_match == search(patterns.bars, command)
    IN  IF bars_match # None
        THEN int(group(command, bars_match[1], 1)[1])
        ELSE 4

\* A faulty variant of include_808_of: only the plural "808s" counts.
include_808_plural_only(command) ==
    search(Cat(<<Lit("with"), Rep("\\s", 1, TRUE), Lit("808s")>>), command) # None

\* Lines 173-175.
include_808_of(command) == search(patterns.with_808, command) # None

parse_generate_command(command) ==
    Return([type        |-> "generate_beat",
            genre       |-> genre_of(command),
            bpm         |-> bpm_of(command),
            key         |-> key_of(command),
            bars        |-> bars_of(command),
            include_808 |-> include_808_of(command)])

(***************************************************************************)
(* CommandParser.parse.                                                    *)
(***************************************************************************)
\* any(word in command for word in words)
AnyIn(words, command) == \E i \in 1..Len(words) : Contains(command, words[i])

\* Line 48: command = command.lower().strip()
normalize(command) == strip(lower(command))

\* A faulty variant of intent_of: the create keywords are looked for first.
intent_create_first(command) ==
    IF AnyIn(<<"create", "make", "generate">>, command)
    THEN "generate_beat"
    ELSE IF AnyIn(<<"take", "load", "use", "sample">>, command)
    THEN "sample_process"
    ELSE "unknown"

\* Lines 51-56: the branch parse takes for a normalized text.
intent_of(command) ==
    IF AnyIn(<<"take", "load", "use", "sample">>, command)
    THEN "sample_process"
    ELSE IF AnyIn(<<"create", "make", "generate">>, command)
    THEN "generate_beat"
    ELSE "unknown"

\* Lines 48-56: what the call parse(raw) ends in.
parse(raw) ==
    LET command == normalize(raw)
    IN  CASE intent_of(command) = "sample_process" ->
                parse_sample_command(command)
          [] intent_of(command) = "generate_beat" ->
                parse_generate_command(command)
          [] OTHER -> Return([type |-> "unknown", raw |-> command])

(***************************************************************************)
(* pathlib on a POSIX host.  A Path is its anchor (absolute or not) and    *)
(* its components; parsing a string drops empty and "." components, so     *)
(* "./a.wav", "a.wav" and "a.wav/" are one Path.  The file system is the   *)
(* set of the absolute paths that exist.                                   *)
(***************************************************************************)
\* The components of s from position i on, cur being the component in hand.
RECURSIVE path_parts(_, _, _)
path_parts(s, i, cur) ==
    LET done == IF cur \in {"", "."} THEN <<>> ELSE <<cur>>
    IN  IF i >= Len(s) THEN done
        ELSE IF CharAt(s, i) = "/" THEN done \o path_parts(s, i + 1, "")
        ELSE path_parts(s, i + 1, cur \o CharAt(s, i))

\* Path(s)
PurePath(s) ==
    [anchor |-> Len(s) > 0 /\ CharAt(s, 0) = "/", parts |-> path_parts(s, 0, "")]

RECURSIVE join_parts(_)
join_parts(parts) ==
    IF Len(parts) = 1 THEN parts[1]
    ELSE parts[1] \o "/" \o join_parts(Tail(parts))

\* str(p)
path_str(p) ==
    IF p.parts = <<>> THEN (IF p.anchor THEN "/" ELSE ".")
    ELSE (IF p.anchor THEN "/" ELSE "") \o join_parts(p.parts)

\* p / q: an absolute q replaces p.
joinpath(p, q) ==
    IF q.anchor THEN q ELSE [anchor |-> p.anchor, parts |-> p.parts \o q.parts]

\* The working directory of the process.
cwd == "/cwd"

\* p.absolute()
absolute(p) == IF p.anchor THEN p ELSE joinpath(PurePath(cwd), p)

\* p.exists() on the file system fs.
exists(fs, p) == path_str(absolute(p)) \in fs

\* Lines 196-200: the first search directory from the i-th on in which path
\* exists, as the joined path; None when there is none.
RECURSIVE first_in_dirs(_, _, _, _)
first_in_dirs(fs, path, search_dirs, i) ==
    IF i > Len(search_dirs) THEN None
    ELSE LET candidate == joinpath(PurePath(search_dirs[i]), PurePath(path))
         IN  IF exists(fs, candidate) THEN Some(path_str(candidate))
             ELSE first_in_dirs(fs, path, search_dirs, i + 1)

\* A faulty variant of validate_sample_path: the working directory is tried
\* before the search directories.
validate_sample_path_cwd_first(fs, path, search_dirs) ==
    IF path = None THEN Raise("TypeError")
    ELSE LET p     == PurePath(path[1])
             found == IF search_dirs # None /\ search_dirs[1] # <<>>
                      THEN first_in_dirs(fs, path[1], search_dirs[1], 1) ELSE None
         IN  IF p.anchor /\ exists(fs, p) THEN Return(Some(path_str(p)))
             ELSE IF exists(fs, p) THEN Return(Some(path_str(absolute(p))))
             ELSE Return(found)

\* Lines 190-206: validate_sample_path(path, search_dirs) on the file system
\* fs; path is a string or None, search_dirs a list of directories or None.
\* Path(None) raises TypeError.
validate_sample_path(fs, path, search_dirs) ==
    IF path = None THEN Raise("TypeError")
    ELSE LET p     == PurePath(path[1])
             found == IF search_dirs # None /\ search_dirs[1] # <<>>
                      THEN first_in_dirs(fs, path[1], search_dirs[1], 1) ELSE None
         IN  IF p.anchor /\ exists(fs, p) THEN Return(Some(path_str(p)))
             ELSE IF found # None THEN Return(found)
             ELSE IF exists(fs, p) THEN Return(Some(path_str(absolute(p))))
             ELSE Return(None)

(***************************************************************************)
(* SampleProcessor.  An audio buffer is the file it was loaded from and    *)
(* the transformations applied to it, in order; the signal processing      *)
(* itself (librosa, soundfile) is outside the model, and any call into it  *)
(* may raise: failing is the set of the methods that raise when called.    *)
(* A run of process_command is its result and the calls it made.           *)
(***************************************************************************)
\* The call of a SampleProcessor method on an argument.
Call(fn, arg) == [fn |-> fn, arg |-> arg]

\* The exception a failing method raises.
Failure(fn) == fn \o " failed"

\* Lines 146-167: apply_filter leaves the audio as it is for a filter type
\* other than lowpass and highpass.
apply_filter(audio, op) ==
    IF op.filter_type \in {"lowpass", "highpass"}
    THEN [audio EXCEPT !.applied = Append(@, op)]
    ELSE audio

\* Lines 94-109: slice_sample divides by num_slices.
slice_sample(audio, num_slices) ==
    IF num_slices = 0 THEN Raise("ZeroDivisionError")
    ELSE Return([slices |-> num_slices, of |-> audio])

\* op.get('type')
type_of(op) == IF "type" \in DOMAIN op THEN Some(op.type) ELSE None

\* The method an operation is handed to, None for an operation of no known
\* type.
method_of(op) ==
    CASE type_of(op) = Some("pitch_shift") -> Some("pitch_shift")
      [] type_of(op) = Some("time_stretch") -> Some("time_stretch")
      [] type_of(op) = Some("filter") -> Some("apply_filter")
      [] type_of(op) = Some("slice") -> Some("slice_sample")
      [] OTHER -> None

\* Lines 203-213: one round of the loop of process_command on the run st;
\* a run that has raised or returned makes no further round.
process_op(st, op, failing) ==
    LET method == method_of(op)
        called == [st EXCEPT !.trace = Append(@, Call(method[1], op))]
        sliced == slice_sample(st.audio, op.num_slices)
    IN  IF st.raised # "" \/ st.returned # None \/ method = None THEN st
        ELSE IF method[1] \in failing
        THEN [called EXCEPT !.raised = Failure(method[1])]
        ELSE IF method[1] = "pitch_shift" \/ method[1] = "time_stretch"
        THEN [called EXCEPT !.audio.applied = Append(@, op)]
        ELSE IF method[1] = "apply_filter"
        THEN [called EXCEPT !.audio = apply_filter(@, op)]
        ELSE IF sliced.raised # ""
        THEN [called EXCEPT !.raised = sliced.raised]
        ELSE [called EXCEPT !.returned = Some(sliced.value)]

\* A faulty variant of process_loop: a slice operation does not end the
\* loop, and the operations after it are applied as well.
RECURSIVE process_loop_past_slice(_, _, _, _)
process_loop_past_slice(st, operations, i, failing) ==
    IF i > Len(operations) THEN st
    ELSE LET next == process_op([st EXCEPT !.returned = None], operations[i], failing)
         IN  process_loop_past_slice(
                 IF st.returned # None /\ next.returned = None
                 THEN [next EXCEPT !.returned = st.returned] ELSE next,
                 operations, i + 1, failing)

\* Lines 202-213: the loop over the operations.
RECURSIVE process_loop(_, _, _, _)
process_loop(st, operations, i, failing) ==
    IF i > Len(operations) THEN st
    ELSE process_loop(process_op(st, operations[i], failing), operations,
                      i + 1, failing)

\* A faulty variant of process_command: the result is saved under the
\* output path after a slice operation as well.
process_command_saves_slices(fs, failing, file_path, operations, output_path) ==
    LET loaded == [audio    |-> [path |-> file_path, applied |-> <<>>],
                   trace    |-> <<Call("load_sample", file_path)>>,
                   raised   |-> IF "load_sample" \in failing
                                THEN Failure("load_sample") ELSE "",
                   returned |-> None]
        st     == process_loop(loaded, operations, 1, failing)
        saving == [st EXCEPT !.trace = Append(@, Call("save_sample", output_path[1]))]
        value  == IF st.returned # None THEN st.returned[1] ELSE st.audio
    IN  IF st.raised # ""
        THEN [raised |-> st.raised, trace |-> st.trace, files |-> fs]
        ELSE IF output_path # None /\ output_path[1] # ""
        THEN IF "save_sample" \in failing
             THEN [raised |-> Failure("save_sample"), trace |-> saving.trace,
                   files |-> fs]
             ELSE [raised |-> "", value |-> value, trace |-> saving.trace,
                   files |-> fs \cup {output_path[1]}]
        ELSE [raised |-> "", value |-> value, trace |-> st.trace, files |-> fs]

\* Lines 200-218: process_command(file_path, operations, output_path) on the
\* file system fs: load, the loop, and the save of the result when an
\* output path is given and no slice operation has returned.
process_command(fs, failing, file_path, operations, output_path) ==
    LET loaded == [audio    |-> [path |-> file_path, applied |-> <<>>],
                   trace    |-> <<Call("load_sample", file_path)>>,
                   raised   |-> IF "load_sample" \in failing
                                THEN Failure("load_sample") ELSE "",
                   returned |-> None]
        st     == process_loop(loaded, operations, 1, failing)
        saving == [st EXCEPT !.trace = Append(@, Call("save_sample", output_path[1]))]
    IN  IF st.raised # ""
        THEN [raised |-> st.raised, trace |-> st.trace, files |-> fs]
        ELSE IF st.returned # None
        THEN [raised |-> "", value |-> st.returned[1], trace |-> st.trace,
              files |-> fs]
        ELSE IF output_path # None /\ output_path[1] # ""
        THEN IF "save_sample" \in failing
             THEN [raised |-> Failure("save_sample"), trace |-> saving.trace,
                   files |-> fs]
             ELSE [raised |-> "", value |-> st.audio, trace |-> saving.trace,
                   files |-> fs \cup {output_path[1]}]
        ELSE [raised |-> "", value |-> st.audio, trace |-> st.trace, files |-> fs]

(***************************************************************************)
(* The beat generator.  A float is the exact fraction Number(n, d).        *)
(***************************************************************************)
\* The float of an integer.
Float(n) == Number(n, 1)

\* a * b, a + b and a < b on floats.
fmul(a, b) == Number(a.num * b.num, a.den * b.den)

fadd(a, b) == Number(a.num * b.den + b.num * a.den, a.den * b.den)

flt(a, b) == a.num * b.den < b.num * a.den

(***************************************************************************)
(* The random module.  Its state is a cycle of draws and a position in it; *)
(* a draw is one of four levels 0..3, and every call takes one draw:       *)
(* random() returns the level as d/4, randint(a, b) the integer at d       *)
(* thirds of the way from a to b, choice(seq) the element at d thirds of   *)
(* the way through seq.  Which draws a run sees is not determined.         *)
(***************************************************************************)
Draws == 0..3

RandomStates == {[tape |-> t, pos |-> 0] : t \in [1..TapeLen -> Draws]}

draw(r) == r.tape[r.pos + 1]

\* The random module after one call.
advance(r) == [r EXCEPT !.pos = (@ + 1) % Len(r.tape)]

random(r) == Number(draw(r), 4)

randint(r, a, b) == a + (draw(r) * (b - a)) \div 3

choice(r, seq) == seq[1 + (draw(r) * (Len(seq) - 1)) \div 3]

(***************************************************************************)
(* MusicGenerator: its tables and _parse_key.                              *)
(***************************************************************************)
SCALES ==
    [major            |-> <<0, 2, 4, 5, 7, 9, 11>>,
     minor            |-> <<0, 2, 3, 5, 7, 8, 10>>,
     pentatonic_major |-> <<0, 2, 4, 7, 9>>,
     pentatonic_minor |-> <<0, 3, 5, 7, 10>>,
     blues            |-> <<0, 3, 5, 6, 7, 10>>,
     harmonic_minor   |-> <<0, 2, 3, 5, 7, 8, 11>>,
     dorian           |-> <<0, 2, 3, 5, 7, 9, 10>>]

GENRE_TEMPLATES ==
    [memphis  |-> [tempo_range |-> <<160, 180>>, scale |-> "minor",
                   drum_style |-> "memphis", bass_pattern |-> "simple",
                   complexity |-> Number(7, 10)],
     trap     |-> [tempo_range |-> <<130, 150>>, scale |-> "minor",
                   drum_style |-> "trap", bass_pattern |-> "bouncy",
                   complexity |-> Number(6, 10)],
     lofi     |-> [tempo_range |-> <<70, 90>>, scale |-> "pentatonic_minor",
                   drum_style |-> "lofi", bass_pattern |-> "simple",
                   complexity |-> Number(4, 10)],
     boom_bap |-> [tempo_range |-> <<85, 95>>, scale |-> "minor",
                   drum_style |-> "boom_bap", bass_pattern |-> "simple",
                   complexity |-> Number(5, 10)],
     drill    |-> [tempo_range |-> <<140, 150>>, scale |-> "harmonic_minor",
                   drum_style |-> "trap", bass_pattern |-> "rolling",
                   complexity |-> Number(8, 10)]]

\* Lines 153-161: the note names and their MIDI numbers.
note_map ==
    ("C" :> 60) @@ ("C#" :> 61) @@ ("Db" :> 61) @@ ("D" :> 62) @@ ("D#" :> 63)
        @@ ("Eb" :> 63) @@ ("E" :> 64) @@ ("F" :> 65) @@ ("F#" :> 66)
        @@ ("Gb" :> 66) @@ ("G" :> 67) @@ ("G#" :> 68) @@ ("Ab" :> 68)
        @@ ("A" :> 69) @@ ("A#" :> 70) @@ ("Bb" :> 70) @@ ("B" :> 71)

\* str.endswith for a one-character suffix.
endswith(s, c) == Len(s) > 0 /\ CharAt(s, Len(s) - 1) = c

\* A faulty variant of parse_key: an unmarked key keeps the default scale.
parse_key_keeps_default(key0, default_scale) ==
    LET key      == strip(key0)
        minor    == endswith(key, "m")
        root_str == IF minor THEN Slice(key, 0, Len(key) - 1) ELSE key
    IN  <<IF root_str \in DOMAIN note_map THEN note_map[root_str] ELSE 60,
          IF minor THEN "minor" ELSE default_scale>>

\* Lines 163-179: the root note and the scale type of a key.
parse_key(key0, default_scale) ==
    LET key        == strip(key0)
        minor      == endswith(key, "m")
        root_str   == IF minor THEN Slice(key, 0, Len(key) - 1) ELSE key
        scale_type == IF minor THEN "minor"
                      ELSE IF default_scale = "minor" THEN "major"
                      ELSE default_scale
        root_note  == IF root_str \in DOMAIN note_map THEN note_map[root_str]
                      ELSE 60
    IN  <<root_note, scale_type>>

(***************************************************************************)
(* PatternBuilder.  A pattern under construction is the list of notes so   *)
(* far and the random module after the draws made for them.                *)
(***************************************************************************)
DRUM_NOTES ==
    [kick |-> 36, snare |-> 38, clap |-> 39, hihat |-> 42, hihat_open |-> 46,
     crash |-> 49, ride |-> 51, tom_low |-> 45, tom_mid |-> 47,
     tom_high |-> 50] @@ ("808" :> 35)

\* Lines 28-38: PatternBuilder(bpm, steps_per_bar); the division by bpm
\* raises for bpm = 0.
PatternBuilder(bpm, steps_per_bar) ==
    IF bpm = 0 THEN Raise("ZeroDivisionError")
    ELSE Return([bpm |-> bpm, steps_per_bar |-> steps_per_bar,
                 step_duration |-> Number(60 * 4, bpm * steps_per_bar)])

\* A note event.
Note(note, velocity, time, duration) ==
    [note |-> note, velocity |-> velocity, time |-> time, duration |-> duration]

\* notes.append of a note whose velocity is random.randint(lo, hi).
Hit(acc, note, lo, hi, time, duration) ==
    [notes |-> Append(acc.notes,
                      Note(note, randint(acc.rng, lo, hi), time, duration)),
     rng   |-> advance(acc.rng)]

\* A call of the random module that adds no note.
Skip(acc) == [acc EXCEPT !.rng = advance(@)]

\* Lines 74-103: one round of the loop of _memphis_pattern.
memphis_step(acc, self, step, complexity) ==
    LET sd   == self.step_duration
        time == fmul(Float(step), sd)
        bar_position == step % self.steps_per_bar
        kick == \/ bar_position \in {0, 8}
                \/ bar_position = 12 /\ flt(random(acc.rng), complexity)
        a1   == IF bar_position = 12 THEN Skip(acc) ELSE acc
        a2   == IF kick
                THEN Hit(a1, DRUM_NOTES.kick, 90, 110, time, fmul(sd, Float(2)))
                ELSE a1
        a3   == IF bar_position \in {4, 12}
                THEN Hit(a2, DRUM_NOTES.snare, 100, 120, time, sd)
                ELSE a2
        hat  == \/ bar_position % 2 = 0
                \/ flt(random(a3.rng), complexity)
        a4   == IF bar_position % 2 = 0 THEN a3 ELSE Skip(a3)
    IN  IF ~hat THEN a4
        ELSE IF bar_position % 2 = 1
        THEN Hit(a4, DRUM_NOTES.hihat, 60, 90, time, fmul(sd, Number(8, 10)))
        ELSE Hit(a4, DRUM_NOTES.hihat, 70, 100, time, fmul(sd, Number(8, 10)))

RECURSIVE roll(_, _, _, _)
\* Lines 146-152: the hits i..2 of a triplet roll.
roll(acc, self, time, i) ==
    IF i >= 3 THEN acc
    ELSE roll(Hit(acc, DRUM_NOTES.hihat, 80, 100,
                  fadd(time, fmul(Float(i), fmul(self.step_duration, Number(1, 3)))),
                  fmul(self.step_duration, Number(1, 3))),
              self, time, i + 1)

\* A faulty variant of trap_step: the third kick is on step 12.
trap_step_kick_on_12(acc, self, step, complexity) ==
    LET sd   == self.step_duration
        time == fmul(Float(step), sd)
        bar_position == step % self.steps_per_bar
        a1   == IF bar_position \in {0, 6, 12}
                THEN Hit(acc, DRUM_NOTES.kick, 100, 127, time, fmul(sd, Float(3)))
                ELSE acc
        a2   == IF bar_position = 8
                THEN Hit(a1, DRUM_NOTES.snare, 110, 127, time, fmul(sd, Float(2)))
                ELSE a1
        a3   == IF bar_position % 2 = 0
                THEN Hit(a2, DRUM_NOTES.hihat, 60, 80, time, fmul(sd, Number(7, 10)))
                ELSE a2
        try  == flt(Number(6, 10), complexity) /\ bar_position \in {7, 15}
    IN  IF ~try THEN a3
        ELSE IF flt(random(a3.rng), Number(7, 10))
        THEN roll(Skip(a3), self, time, 0)
        ELSE Skip(a3)

\* A faulty variant of trap_step: rolls are tried from complexity 0.6 on.
trap_step_rolls_from_06(acc, self, step, complexity) ==
    LET sd   == self.step_duration
        time == fmul(Float(step), sd)
        bar_position == step % self.steps_per_bar
        a1   == IF bar_position \in {0, 6, 10}
                THEN Hit(acc, DRUM_NOTES.kick, 100, 127, time, fmul(sd, Float(3)))
                ELSE acc
        a2   == IF bar_position = 8
                THEN Hit(a1, DRUM_NOTES.snare, 110, 127, time, fmul(sd, Float(2)))
                ELSE a1
        a3   == IF bar_position % 2 = 0
                THEN Hit(a2, DRUM_NOTES.hihat, 60, 80, time, fmul(sd, Number(7, 10)))
                ELSE a2
        try  == ~flt(complexity, Number(6, 10)) /\ bar_position \in {7, 15}
    IN  IF ~try THEN a3
        ELSE IF flt(random(a3.rng), Number(7, 10))
        THEN roll(Skip(a3), self, time, 0)
        ELSE Skip(a3)

\* Lines 113-152: one round of the loop of _trap_pattern.
trap_step(acc, self, step, complexity) ==
    LET sd   == self.step_duration
        time == fmul(Float(step), sd)
        bar_position == step % self.steps_per_bar
        a1   == IF bar_position \in {0, 6, 10}
                THEN Hit(acc, DRUM_NOTES.kick, 100, 127, time, fmul(sd, Float(3)))
                ELSE acc
        a2   == IF bar_position = 8
                THEN Hit(a1, DRUM_NOTES.snare, 110, 127, time, fmul(sd, Float(2)))
                ELSE a1
        a3   == IF bar_position % 2 = 0
                THEN Hit(a2, DRUM_NOTES.hihat, 60, 80, time, fmul(sd, Number(7, 10)))
                ELSE a2
        try  == flt(Number(6, 10), complexity) /\ bar_position \in {7, 15}
    IN  IF ~try THEN a3
        ELSE IF flt(random(a3.rng), Number(7, 10))
        THEN roll(Skip(a3), self, time, 0)
        ELSE Skip(a3)

\* A faulty variant of lofi_step: a hi-hat on every step, the odd ones
\* included.
lofi_step_hats_on_every_step(acc, self, step, complexity) ==
    LET sd   == self.step_duration
        time == IF step % 2 = 1
                THEN fadd(fmul(Float(step - 1), sd), fmul(sd, Number(7, 10)))
                ELSE fmul(Float(step), sd)
        bar_position == step % self.steps_per_bar
        a1   == IF bar_position \in {0, 8}
                THEN Hit(acc, DRUM_NOTES.kick, 70, 90, time, fmul(sd, Float(2)))
                ELSE acc
        a2   == IF bar_position \in {4, 12}
                THEN Hit(a1, DRUM_NOTES.snare, 60, 80, time, sd)
                ELSE a1
    IN  Hit(a2, DRUM_NOTES.hihat, 40, 60, time, sd)

\* Lines 163-196: one round of the loop of _lofi_pattern, swing 0.7.
lofi_step(acc, self, step, complexity) ==
    LET sd   == self.step_duration
        time == IF step % 2 = 1
                THEN fadd(fmul(Float(step - 1), sd), fmul(sd, Number(7, 10)))
                ELSE fmul(Float(step), sd)
        bar_position == step % self.steps_per_bar
        a1   == IF bar_position \in {0, 8}
                THEN Hit(acc, DRUM_NOTES.kick, 70, 90, time, fmul(sd, Float(2)))
                ELSE acc
        a2   == IF bar_position \in {4, 12}
                THEN Hit(a1, DRUM_NOTES.snare, 60, 80, time, sd)
                ELSE a1
    IN  IF bar_position % 2 = 0
        THEN Hit(a2, DRUM_NOTES.hihat, 40, 60, time, sd)
        ELSE a2

\* Lines 206-234: one round of the loop of _boom_bap_pattern.
boom_bap_step(acc, self, step, complexity) ==
    LET sd   == self.step_duration
        time == fmul(Float(step), sd)
        bar_position == step % self.steps_per_bar
        a1   == IF bar_position \in {0, 10}
                THEN Hit(acc, DRUM_NOTES.kick, 110, 127, time, fmul(sd, Float(2)))
                ELSE acc
        a2   == IF bar_position \in {4, 12}
                THEN Hit(a1, DRUM_NOTES.snare, 100, 120, time, sd)
                ELSE a1
    IN  IF bar_position % 4 = 0
        THEN Hit(a2, DRUM_NOTES.hihat, 50, 70, time, sd)
        ELSE a2

\* notes.append of a note of fixed velocity: no call of the random module.
Put(acc, note, velocity, time, duration) ==
    [acc EXCEPT !.notes = Append(@, Note(note, velocity, time, duration))]

\* Lines 244-272: one round of the loop of _basic_pattern.
basic_step(acc, self, step) ==
    LET sd   == self.step_duration
        time == fmul(Float(step), sd)
        bar_position == step % self.steps_per_bar
        a1   == IF bar_position % 4 = 0
                THEN Put(acc, DRUM_NOTES.kick, 100, time, sd)
                ELSE acc
        a2   == IF bar_position \in {4, 12}
                THEN Put(a1, DRUM_NOTES.snare, 100, time, sd)
                ELSE a1
    IN  IF bar_position % 2 = 0
        THEN Put(a2, DRUM_NOTES.hihat, 80, time, sd)
        ELSE a2

\* The loop body of the pattern method that create_drum_pattern selects.
drum_step(style, acc, self, step, complexity) ==
    CASE style = "memphis"  -> memphis_step(acc, self, step, complexity)
      [] style = "trap"     -> trap_step(acc, self, step, complexity)
      [] style = "lofi"     -> lofi_step(acc, self, step, complexity)
      [] style = "boom_bap" -> boom_bap_step(acc, self, step, complexity)
      [] OTHER              -> basic_step(acc, self, step)

RECURSIVE drum_loop(_, _, _, _, _, _)
\* for step in range(total_steps), from step on.
drum_loop(style, acc, self, step, total_steps, complexity) ==
    IF step >= total_steps THEN acc
    ELSE CHOOSE out \in {drum_loop(style, a, self, step + 1, total_steps, complexity) :
                            a \in {drum_step(style, acc, self, step, complexity)}} : TRUE

\* Lines 57-66: create_drum_pattern with the random module in state r: the
\* notes, and the random module after them.
create_drum_pattern(self, r, style, bars, complexity) ==
    drum_loop(lower(style), [notes |-> <<>>, rng |-> r], self, 0,
              self.steps_per_bar * bars, complexity)

\* The steps on which create_808_bassline puts a note, in the order of its
\* loops: lines 300-302, 312-315 and 327; none for another pattern type.
bass_steps(self, bars, pattern_type) ==
    LET per_bar == IF pattern_type = "simple" THEN <<0, 8>>
                   ELSE IF pattern_type = "bouncy" THEN <<0, 3, 6, 8, 11, 14>>
                   ELSE <<>>
        n       == Len(per_bar)
    IN  IF pattern_type = "rolling"
        THEN [k \in 1..((self.steps_per_bar * bars + 1) \div 2) |-> 2 * (k - 1)]
        ELSE [k \in 1..(n * bars) |->
                 ((k - 1) \div n) * self.steps_per_bar + per_bar[((k - 1) % n) + 1]]

\* s[:n] of a list.
Prefix(s, n) == SubSeq(s, 1, IF n > Len(s) THEN Len(s) ELSE n)

\* A faulty variant of bass_note: a bouncy note lasts 3 steps.
bass_note_long_bounce(acc, self, step, root_note, scale, pattern_type) ==
    LET sd   == self.step_duration
        time == fmul(Float(step), sd)
    IN  CASE pattern_type = "simple" ->
               Hit(acc, root_note, 100, 120, time, fmul(sd, Float(3)))
          [] pattern_type = "bouncy" ->
               Hit(Skip(acc), root_note + choice(acc.rng, Prefix(scale, 4)),
                   90, 110, time, fmul(sd, Float(3)))
          [] pattern_type = "rolling" ->
               Hit(Skip(acc), root_note + choice(acc.rng, Prefix(scale, 3)),
                   80, 100, time, fmul(sd, Number(15, 10)))

\* Lines 303-308, 317-323 and 328-334: the note appended on a step.
bass_note(acc, self, step, root_note, scale, pattern_type) ==
    LET sd   == self.step_duration
        time == fmul(Float(step), sd)
    IN  CASE pattern_type = "simple" ->
               Hit(acc, root_note, 100, 120, time, fmul(sd, Float(3)))
          [] pattern_type = "bouncy" ->
               Hit(Skip(acc), root_note + choice(acc.rng, Prefix(scale, 4)),
                   90, 110, time, fmul(sd, Float(2)))
          [] pattern_type = "rolling" ->
               Hit(Skip(acc), root_note + choice(acc.rng, Prefix(scale, 3)),
                   80, 100, time, fmul(sd, Number(15, 10)))

RECURSIVE bass_loop(_, _, _, _, _, _, _)
\* The loops of create_808_bassline from the i-th of its steps on.
bass_loop(acc, self, steps, i, root_note, scale, pattern_type) ==
    IF i > Len(steps) THEN acc
    ELSE CHOOSE out \in {bass_loop(a, self, steps, i + 1, root_note, scale, pattern_type) :
                            a \in {bass_note(acc, self, steps[i], root_note, scale,
                                             pattern_type)}} : TRUE

\* Lines 295-336: create_808_bassline with the random module in state r:
\* the notes and the random module after them; random.choice raises
\* IndexError on an empty scale.
create_808_bassline(self, r, root_note, scale, bars, pattern_type) ==
    LET steps == bass_steps(self, bars, pattern_type)
    IN  IF scale = <<>> /\ steps # <<>> /\ pattern_type # "simple"
        THEN [raised |-> "IndexError", notes |-> <<>>, rng |-> advance(r)]
        ELSE [raised |-> ""] @@
             bass_loop([notes |-> <<>>, rng |-> r], self, steps, 1, root_note,
                       scale, pattern_type)

\* list.extend over the patterns, in argument order.
RECURSIVE extend_all(_)
extend_all(lists) ==
    IF lists = <<>> THEN <<>>
    ELSE Head(lists) \o extend_all(Tail(lists))

\* A faulty variant of insert_by_time: the event goes before its equals.
insert_before_equals(sorted, e) ==
    LET before == {i \in 1..Len(sorted) : flt(sorted[i].time, e.time)}
        n      == Cardinality(before)
    IN  SubSeq(sorted, 1, n) \o <<e>> \o SubSeq(sorted, n + 1, Len(sorted))

\* The place list.sort gives an event among the events before it in the
\* list: after every one whose time is not greater (the sort is stable).
insert_by_time(sorted, e) ==
    LET before == {i \in 1..Len(sorted) : ~flt(e.time, sorted[i].time)}
        n      == Cardinality(before)
    IN  SubSeq(sorted, 1, n) \o <<e>> \o SubSeq(sorted, n + 1, Len(sorted))

RECURSIVE sort_by_time(_, _, _)
\* Line 353: combined.sort(key=lambda x: x['time']), from the i-th event on.
sort_by_time(sorted, list, i) ==
    IF i > Len(list) THEN sorted
    ELSE CHOOSE out \in {sort_by_time(s, list, i + 1) :
                            s \in {insert_by_time(sorted, list[i])}} : TRUE

\* Lines 348-354: combine_patterns(*patterns): the list returned, and the
\* argument lists after the call; the sort works on the new list.
combine_patterns(lists) ==
    [combined |-> sort_by_time(<<>>, extend_all(lists), 1),
     patterns |-> lists]

\* Lines 90-95: the template generate_beat uses for a genre.
template_of(genre) ==
    IF lower(genre) \in DOMAIN GENRE_TEMPLATES
    THEN GENRE_TEMPLATES[lower(genre)]
    ELSE GENRE_TEMPLATES["trap"]

\* A faulty variant of bass_of: the bassline is built on the root itself.
bass_of_same_octave(builder, r, template, root_note, scale_type, bars, include_808) ==
    IF include_808
    THEN create_808_bassline(builder, r, root_note, SCALES[scale_type],
                             bars, template.bass_pattern)
    ELSE [raised |-> "", notes |-> <<>>, rng |-> r]

\* Lines 115-124: the bassline of generate_beat, built when include_808.
bass_of(builder, r, template, root_note, scale_type, bars, include_808) ==
    IF include_808
    THEN create_808_bassline(builder, r, root_note - 12, SCALES[scale_type],
                             bars, template.bass_pattern)
    ELSE [raised |-> "", notes |-> <<>>, rng |-> r]

\* Lines 104-139 of generate_beat, once the bpm is set: the result, the
\* builder left in self.pattern_builder and the random module after it.
beat_at(r, template, genre, bpm, key, bars, include_808) ==
    LET resolved == parse_key(key, template.scale)
        builder  == PatternBuilder(bpm, 16)
        drums    == create_drum_pattern(builder.value, r, template.drum_style,
                                        bars, template.complexity)
        bass     == bass_of(builder.value, drums.rng, template, resolved[1],
                            resolved[2], bars, include_808)
    IN  IF builder.raised # ""
        THEN [raised |-> builder.raised, rng |-> r, pattern_builder |-> None]
        ELSE IF bass.raised # ""
        THEN [raised |-> bass.raised, rng |-> bass.rng,
              pattern_builder |-> Some(builder.value)]
        ELSE [raised |-> "",
              value  |-> [genre |-> genre, bpm |-> bpm, key |-> key,
                          bars |-> bars,
                          drum_pattern |-> drums.notes,
                          bass_pattern |-> bass.notes,
                          combined_pattern |->
                              combine_patterns(<<drums.notes, bass.notes>>).combined,
                          scale |-> resolved[2],
                          root_note |-> resolved[1]],
              rng |-> bass.rng,
              pattern_builder |-> Some(builder.value)]

\* A faulty variant of generate_beat: an unknown genre uses the lofi template.
generate_beat_falls_back_to_lofi(r, genre, bpm, key, bars, include_808) ==
    LET template == IF lower(genre) \in DOMAIN GENRE_TEMPLATES
                    THEN GENRE_TEMPLATES[lower(genre)]
                    ELSE GENRE_TEMPLATES["lofi"]
    IN  IF bpm = None
        THEN beat_at(advance(r), template, genre,
                     randint(r, template.tempo_range[1], template.tempo_range[2]),
                     key, bars, include_808)
        ELSE beat_at(r, template, genre, bpm[1], key, bars, include_808)

\* Lines 89-139: generate_beat(genre, bpm, key, bars, include_808) with the
\* random module in state r; an absent bpm is drawn from the tempo range.
generate_beat(r, genre, bpm, key, bars, include_808) ==
    LET template == template_of(genre)
    IN  IF bpm = None
        THEN beat_at(advance(r), template, genre,
                     randint(r, template.tempo_range[1], template.tempo_range[2]),
                     key, bars, include_808)
        ELSE beat_at(r, template, genre, bpm[1], key, bars, include_808)

\* Python's max(0, min(127, note)).
clamp_midi(note) == IF note > 127 THEN 127 ELSE IF note < 0 THEN 0 ELSE note

\* Lines 213-234: one round of the loop of generate_melody.
melody_step(acc, self, step, root_note, scale_intervals, note_density) ==
    IF flt(random(acc.rng), note_density)
    THEN LET r1 == advance(acc.rng)
             interval == choice(r1, scale_intervals)
             r2 == advance(r1)
             jump == flt(random(r2), Number(2, 10))
             r3 == advance(r2)
             octave_shift == IF jump THEN choice(r3, <<0 - 12, 0, 12>>) ELSE 0
             r4 == IF jump THEN advance(r3) ELSE r3
             r5 == advance(r4)
         IN  [notes |-> Append(acc.notes,
                   Note(clamp_midi(root_note + interval + octave_shift),
                        randint(r4, 70, 100),
                        fmul(Float(step), self.step_duration),
                        fmul(self.step_duration,
                             Float(choice(r5, <<1, 2, 3, 4>>))))),
              rng |-> advance(r5)]
    ELSE Skip(acc)

RECURSIVE melody_loop(_, _, _, _, _, _, _)
melody_loop(acc, self, step, total_steps, root_note, scale_intervals, note_density) ==
    IF step >= total_steps THEN acc
    ELSE CHOOSE out \in {melody_loop(a, self, step + 1, total_steps, root_note,
                                     scale_intervals, note_density) :
                            a \in {melody_step(acc, self, step, root_note,
                                               scale_intervals, note_density)}} : TRUE

\* Lines 207-208: the builder generate_melody works with is the one the
\* generator holds, and one of 120 bpm when it holds none.
builder_of(builder) ==
    IF builder # None THEN builder[1] ELSE PatternBuilder(120, 16).value

\* Lines 200-236: generate_melody(key, scale, bars, note_density, octave) on a
\* generator whose pattern_builder attribute is builder, with the random
\* module in state r.
generate_melody(builder, r, key, scale, bars, note_density, octave) ==
    LET root_note == (octave * 12) + (parse_key(key, scale)[1] % 12)
        scale_intervals == IF scale \in DOMAIN SCALES THEN SCALES[scale]
                           ELSE SCALES.pentatonic_minor
        self == builder_of(builder)
        out  == melody_loop([notes |-> <<>>, rng |-> r], self, 0,
                            self.steps_per_bar * bars, root_note,
                            scale_intervals, note_density)
    IN  [raised |-> "", value |-> out.notes, rng |-> out.rng,
         pattern_builder |-> Some(self)]

(***************************************************************************)
(* FLStudioAutomation (src/main.py).  What the execution of a command did  *)
(* is a log: the calls made on the collaborators and the reports printed.  *)
(* failing is the set of the collaborators' methods that raise when        *)
(* called.                                                                 *)
(***************************************************************************)
\* fl_controller.samples_dir, from the configuration file.
samples_dir == "/s1"

\* A line printed to the user.
Report(kind, detail) == Call("print", <<kind, detail>>)

\* The position of the last "." of name from position i down, -1 for none.
RECURSIVE rfind_dot(_, _)
rfind_dot(name, i) ==
    IF i < 0 THEN 0 - 1
    ELSE IF CharAt(name, i) = "." THEN i
    ELSE rfind_dot(name, i - 1)

\* Path(path).stem: the last component without its suffix.
stem(path) ==
    LET parts == PurePath(path).parts
        name  == IF parts = <<>> THEN "" ELSE parts[Len(parts)]
        dot   == rfind_dot(name, Len(name) - 1)
    IN  IF dot > 0 /\ dot < Len(name) - 1 THEN Slice(name, 0, dot) ELSE name

\* Lines 83-84 of main.py: the path the processed sample is saved under.
output_full_of(sample_path) ==
    path_str(joinpath(PurePath(samples_dir),
                      PurePath(stem(sample_path) \o "_processed.wav")))

\* Lines 92-101 of main.py: what follows the return of process_command,
\* whose run is processed: the report of the save and, for a command with an
\* insert bar, the insertion.
report_and_insert(fs, failing, command, output_full, processed) ==
    LET saved  == processed.trace \o <<Report("Processed sample saved", output_full)>>
        insert == Call("insert_sample_at_position",
                       [sample_path |-> output_full, bar |-> command.insert_bar[1],
                        beat |-> command.insert_beat])
    IN  IF processed.raised # ""
        THEN [raised |-> processed.raised, log |-> processed.trace, files |-> fs]
        ELSE IF ~Truthy(command.insert_bar)
        THEN [raised |-> "", log |-> saved, files |-> processed.files]
        ELSE IF "insert_sample_at_position" \in failing
        THEN [raised |-> Failure("insert_sample_at_position"),
              log |-> Append(saved, insert), files |-> processed.files]
        ELSE [raised |-> "",
              log |-> saved \o <<insert, Report("Sample inserted", command.insert_bar[1])>>,
              files |-> processed.files]

\* Lines 83-101 of main.py: the try block of _handle_sample_processing, up
\* to the exception that ends it.
process_and_insert(fs, failing, command, sample_path) ==
    CHOOSE done \in
        {report_and_insert(fs, failing, command, output_full_of(sample_path),
                           processed) :
            processed \in {process_command(fs, failing, sample_path,
                                           command.operations,
                                           Some(output_full_of(sample_path)))}} : TRUE

\* Lines 103-106 of main.py: what the try block raised is reported.
except_reported(done, kind) ==
    IF done.raised # ""
    THEN [done EXCEPT !.raised = "",
                      !.log = Append(@, Report(kind, done.raised))]
    ELSE done

\* Lines 74-106 of main.py: what _handle_sample_processing does with
\* resolved, the outcome of validate_sample_path.
process_resolved(fs, failing, command, resolved) ==
    IF resolved.raised # ""
    THEN [raised |-> resolved.raised, log |-> <<>>, files |-> fs]
    ELSE IF resolved.value = None
    THEN [raised |-> "",
          log |-> <<Report("Error: Sample not found", command.sample_path[1])>>,
          files |-> fs]
    ELSE CHOOSE res \in
             {except_reported(done, "Error processing sample") :
                 done \in {process_and_insert(fs, failing, command,
                                              resolved.value[1])}} : TRUE

\* Lines 57-106 of main.py: _handle_sample_processing(parsed).  The call of
\* validate_sample_path is outside the try block.
handle_sample_processing(fs, failing, command) ==
    CHOOSE res \in
        {process_resolved(fs, failing, command, resolved) :
            resolved \in {validate_sample_path(fs, command.sample_path,
                                               Some(<<samples_dir>>))}} : TRUE

\* Lines 127-146 of main.py: what _handle_beat_generation does with beat,
\* the outcome of generate_beat: the pattern is sent to create_pattern, and
\* what either raised is reported.
send_pattern(builder, failing, command, beat) ==
    LET made   == Call("generate_beat", command.genre)
        create == Call("create_pattern",
                       [genre |-> command.genre, bpm |-> beat.value.bpm,
                        notes |-> Len(beat.value.combined_pattern)])
    IN  IF beat.raised # ""
        THEN [log |-> <<made, Report("Error generating beat", beat.raised)>>,
              rng |-> beat.rng,
              pattern_builder |-> IF beat.pattern_builder = None THEN builder
                                  ELSE beat.pattern_builder]
        ELSE IF "create_pattern" \in failing
        THEN [log |-> <<made, create,
                        Report("Error generating beat", Failure("create_pattern"))>>,
              rng |-> beat.rng, pattern_builder |-> beat.pattern_builder]
        ELSE [log |-> <<made, create, Report("Pattern sent", command.genre)>>,
              rng |-> beat.rng, pattern_builder |-> beat.pattern_builder]

\* Lines 108-146 of main.py: _handle_beat_generation(parsed) on the
\* generator whose random module is in state r.
handle_beat_generation(r, builder, failing, command) ==
    CHOOSE res \in
        {send_pattern(builder, failing, command, beat) :
            beat \in {generate_beat(r, command.genre, command.bpm, command.key,
                                    command.bars, command.include_808)}} : TRUE

\* Lines 45-55 of main.py: what execute_command does with out, the outcome
\* of parse.  What parse or _handle_sample_processing raises leaves
\* execute_command.
dispatch(fs, r, builder, failing, out) ==
    LET same == [files |-> fs, rng |-> r, pattern_builder |-> builder]
    IN  IF out.raised # ""
        THEN [raised |-> out.raised, parsed |-> None, log |-> <<>>] @@ same
        ELSE IF out.value.type = "sample_process"
        THEN [parsed |-> Some(out.value), rng |-> r, pattern_builder |-> builder]
             @@ handle_sample_processing(fs, failing, out.value)
        ELSE IF out.value.type = "generate_beat"
        THEN [raised |-> "", parsed |-> Some(out.value), files |-> fs]
             @@ handle_beat_generation(r, builder, failing, out.value)
        ELSE [raised |-> "", parsed |-> Some(out.value),
              log |-> <<Report("Could not parse command", out.value.raw)>>] @@ same

\* Lines 33-55 of main.py: execute_command(command): parse, then the
\* handler of the command's type.
execute_command(fs, r, builder, failing, command) ==
    CHOOSE done \in {dispatch(fs, r, builder, failing, out) :
                        out \in {parse(command)}} : TRUE

\* What one round of the loop of interactive_mode leaves: the log of the
\* round, whether the loop goes on, and the state of the host.
Round(more, log, fs, r, builder) ==
    [more |-> more, log |-> log, files |-> fs, rng |-> r, pattern_builder |-> builder]

\* A faulty variant of executed_round: an error reported while the command
\* was executed ends the loop.
executed_round_ends_on_error(out) ==
    Round(/\ out.raised = ""
          /\ \A i \in 1..Len(out.log) :
                 out.log[i].fn = "print" =>
                     out.log[i].arg[1] \notin {"Error processing sample",
                                               "Error generating beat"},
          IF out.raised = "" THEN out.log
          ELSE Append(out.log, Report("Error:", out.raised)),
          out.files, out.rng, out.pattern_builder)

\* Lines 183-191 of main.py: the round of a command handed to
\* execute_command, whose outcome is out: an exception that left it is
\* caught and reported, and the loop goes on.
executed_round(out) ==
    Round(TRUE,
          IF out.raised = "" THEN out.log
          ELSE Append(out.log, Report("Error:", out.raised)),
          out.files, out.rng, out.pattern_builder)

\* Lines 156-191 of main.py: one round of the loop of interactive_mode on
\* the lines the console has left.  input() raises EOFError at the end of
\* the console and KeyboardInterrupt at a Ctrl-C, here the entry "^C"; both
\* are caught and reported, and only quit, exit and q leave the loop.
interactive_round(fs, r, builder, failing, console) ==
    IF console = <<>>
    THEN Round(TRUE, <<Report("Error:", "EOFError")>>, fs, r, builder)
    ELSE IF Head(console) = "^C"
    THEN Round(TRUE, <<Report("Use 'quit' to exit", "")>>, fs, r, builder)
    ELSE IF strip(Head(console)) = "" THEN Round(TRUE, <<>>, fs, r, builder)
    ELSE IF lower(strip(Head(console))) \in {"quit", "exit", "q"}
    THEN Round(FALSE, <<Report("Goodbye!", "")>>, fs, r, builder)
    ELSE IF lower(strip(Head(console))) \in {"help", "genres", "scales"}
    THEN Round(TRUE, <<Report(lower(strip(Head(console))), "")>>, fs, r, builder)
    ELSE CHOOSE round \in
             {executed_round(out) :
                 out \in {execute_command(fs, r, builder, failing,
                                          strip(Head(console)))}} : TRUE

(***************************************************************************)
(* The checked inputs: a head followed by at most MaxWords entries of a    *)
(* lexicon, joined by single spaces.  The empty entry gives leading,       *)
(* trailing and doubled spaces.                                            *)
(***************************************************************************)
RECURSIVE Join(_)
Join(ws) ==
    IF Len(ws) = 0 THEN ""
    ELSE IF Len(ws) = 1 THEN ws[1]
    ELSE ws[1] \o " " \o Join(Tail(ws))

CommandsOver(heads, lexicon) ==
    {h \o Join(ws) : h \in heads,
                     ws \in UNION {[1..n -> lexicon] : n \in 1..MaxWords}}

IntentLexicon ==
    {"take", "load", "USE", "sample", "create", "Make", "generate", "beat",
     "because"}

SampleLexicon ==
    {"take", "load", "use", "get", "my", "kick.wav", "x.mp3", "b.flac", "c.aiff"}

PitchLexicon ==
    {"pitch", "pitch down", "pitch up", "down 3", "3", "-3", "2 semitones", ""}

OpsLexicon ==
    {"pitch down 2", "stretch by 0.5", "slice into 4", "chop 8 pitch -1",
     "highpass filter at 90 hz", "stretch .", "bandpass 50 stretch 2."}

InsertLexicon ==
    {"insert at bar 4", "insert 0", "insert bar 2 beat 6", "beat 3",
     "measure 7", "bar 5", "count 2", "at the end of measure 9"}

GenerateLexicon ==
    {"memphis style beat", "with 808s", "at 170 bpm", "8 bars", "90bpm", "with",
     "808 bar", ""}

GenreLexicon ==
    {"in key of Dm", "beat in F#", "boombap beat", "boom bap", "drill", "lofi",
     "chill beat", "Bbm"}

UnknownLexicon ==
    {"Hello", "hello", "play it", "Beat", "DROP", "stop", "make", ""}

(***************************************************************************)
(* The state machine: a text is handed to parse, which returns a command   *)
(* or raises.                                                              *)
(***************************************************************************)
InitOver(commands) ==
    /\ line \in commands
    /\ parsed = None
    /\ exc = ""
    /\ branch = ""
    /\ pc = "input"
    /\ request = None
    /\ rng = [tape |-> <<0>>, pos |-> 0]
    /\ pattern_builder = None
    /\ results = <<>>
    /\ files = {}
    /\ calls = <<>>
    /\ inputs = <<>>

\* execute_command's call self.parser.parse(command)
Parse ==
    /\ pc = "input"
    /\ \E out \in {parse(line)} :
           /\ parsed' = (IF out.raised = "" THEN Some(out.value) ELSE None)
           /\ exc' = out.raised
    /\ branch' = intent_of(normalize(line))
    /\ pc' = "done"
    /\ UNCHANGED line
    /\ UNCHANGED generatorVars
    /\ UNCHANGED hostVars

Next == Parse

Init == InitOver(CommandsOver({""}, IntentLexicon))

Spec == Init /\ [][Next]_vars

InitSample == InitOver(CommandsOver({""}, SampleLexicon))

SpecSample == InitSample /\ [][Next]_vars

InitPitch == InitOver(CommandsOver({"take a.wav "}, PitchLexicon))

SpecPitch == InitPitch /\ [][Next]_vars

InitOps == InitOver(CommandsOver({"take a.wav, "}, OpsLexicon))

SpecOps == InitOps /\ [][Next]_vars

InitInsert == InitOver(CommandsOver({"take a.wav "}, InsertLexicon))

SpecInsert == InitInsert /\ [][Next]_vars

InitGenerate == InitOver(CommandsOver({"create a "}, GenerateLexicon))

SpecGenerate == InitGenerate /\ [][Next]_vars

InitGenre == InitOver(CommandsOver({"make a "}, GenreLexicon))

SpecGenre == InitGenre /\ [][Next]_vars

InitUnknown == InitOver(CommandsOver({""}, UnknownLexicon))

SpecUnknown == InitUnknown /\ [][Next]_vars

(***************************************************************************)
(* The generator's state machine: a call on a MusicGenerator or on its     *)
(* PatternBuilder, with arguments chosen at the start and the random       *)
(* module in some state, runs to its end.                                  *)
(***************************************************************************)
InitCall(requests, randoms) ==
    /\ line = ""
    /\ parsed = None
    /\ exc = ""
    /\ branch = ""
    /\ pc = "idle"
    /\ request \in {Some(c) : c \in requests}
    /\ rng \in randoms
    /\ pattern_builder = None
    /\ results = <<>>
    /\ files = {}
    /\ calls = <<>>
    /\ inputs = <<>>

\* The key strings and default scales handed to _parse_key.
KeyStrings ==
    {"C", "Dm", "F#", "F#m", "Bb", "Bbm", "E", "G#", "Ab", "B", "A#m", "Cb",
     "H", "c", "m", "", "Cmaj", "Am ", " Eb", " m", "mm"}

KeyRequests ==
    {[call |-> "_parse_key", key |-> k, default_scale |-> d] :
        k \in KeyStrings, d \in DOMAIN SCALES}

\* generator._parse_key(key, default_scale)
ParseKey ==
    /\ request # None
    /\ request[1].call = "_parse_key"
    /\ results = <<>>
    /\ results' = <<Return(parse_key(request[1].key, request[1].default_scale))>>
    /\ UNCHANGED <<request, rng, pattern_builder>>
    /\ UNCHANGED parserVars
    /\ UNCHANGED hostVars

NextKey == ParseKey

InitKey == InitCall(KeyRequests, {[tape |-> <<0>>, pos |-> 0]})

SpecKey == InitKey /\ [][NextKey]_vars

\* A call on a PatternBuilder built for one of the tempos.
InitBuilderCall(requests, randoms, tempos) ==
    /\ line = ""
    /\ parsed = None
    /\ exc = ""
    /\ branch = ""
    /\ pc = "idle"
    /\ request \in {Some(c) : c \in requests}
    /\ rng \in randoms
    /\ pattern_builder \in {Some(PatternBuilder(bpm, 16).value) : bpm \in tempos}
    /\ results = <<>>
    /\ files = {}
    /\ calls = <<>>
    /\ inputs = <<>>

\* The bar counts of the checked calls.
BarCounts == {1, 2, MaxBars}

DrumRequests ==
    {[call |-> "create_drum_pattern", style |-> s, bars |-> b, complexity |-> c] :
        s \in {"memphis", "trap", "Trap", "lofi", "boom_bap", "house"},
        b \in BarCounts,
        c \in {Number(6, 10), Number(7, 10)}}

\* builder.create_drum_pattern(style, bars, complexity), run twice with the
\* same arguments.
CreateDrumPattern ==
    /\ request # None
    /\ request[1].call = "create_drum_pattern"
    /\ Len(results) < 2
    /\ \E out \in {create_drum_pattern(pattern_builder[1], rng, request[1].style,
                                        request[1].bars, request[1].complexity)} :
           /\ results' = Append(results, Return(out.notes))
           /\ rng' = out.rng
    /\ UNCHANGED <<request, pattern_builder>>
    /\ UNCHANGED parserVars
    /\ UNCHANGED hostVars

NextDrums == CreateDrumPattern

InitDrums == InitBuilderCall(DrumRequests, RandomStates, {90})

SpecDrums == InitDrums /\ [][NextDrums]_vars

BassRequests ==
    {[call |-> "create_808_bassline", root_note |-> n, scale |-> sc, bars |-> b,
      pattern_type |-> t] :
        n \in {0 - 1, 36, 125},
        sc \in {SCALES.major, SCALES.pentatonic_minor, <<0, 7>>},
        b \in BarCounts,
        t \in {"simple", "bouncy", "rolling", "walking"}}

\* What a call that built a pattern ends in.
Outcome(out) == IF out.raised = "" THEN Return(out.notes) ELSE Raise(out.raised)

\* builder.create_808_bassline(root_note, scale, bars, pattern_type)
Create808Bassline ==
    /\ request # None
    /\ request[1].call = "create_808_bassline"
    /\ results = <<>>
    /\ \E out \in {create_808_bassline(pattern_builder[1], rng,
                                        request[1].root_note, request[1].scale,
                                        request[1].bars, request[1].pattern_type)} :
           /\ results' = <<Outcome(out)>>
           /\ rng' = out.rng
    /\ UNCHANGED <<request, pattern_builder>>
    /\ UNCHANGED parserVars
    /\ UNCHANGED hostVars

NextBass == Create808Bassline

InitBass == InitBuilderCall(BassRequests, RandomStates, {140})

SpecBass == InitBass /\ [][NextBass]_vars

\* The events of the patterns handed to combine_patterns.
CombineEvents ==
    {Note(n, 100, t, Number(1, 4)) :
        n \in {36, 35}, t \in {Float(0), Number(1, 2), Float(1)}}

CombineRequests ==
    {[call |-> "combine_patterns", patterns |-> <<p1, p2>>] :
        p1 \in UNION {[1..n -> CombineEvents] : n \in 0..MaxEvents},
        p2 \in UNION {[1..n -> CombineEvents] : n \in 0..MaxEvents}}

\* builder.combine_patterns(p1, p2)
CombinePatterns ==
    /\ request # None
    /\ request[1].call = "combine_patterns"
    /\ results = <<>>
    /\ \E out \in {combine_patterns(request[1].patterns)} :
           /\ results' = <<Return(out.combined)>>
           /\ request' = Some([request[1] EXCEPT !.patterns = out.patterns])
    /\ UNCHANGED <<rng, pattern_builder>>
    /\ UNCHANGED parserVars
    /\ UNCHANGED hostVars

NextCombine == CombinePatterns

InitCombine == InitBuilderCall(CombineRequests, {[tape |-> <<0>>, pos |-> 0]}, {140})

SpecCombine == InitCombine /\ [][NextCombine]_vars

BeatRequests ==
    {[call |-> "generate_beat", genre |-> g, bpm |-> b, key |-> k, bars |-> n,
      include_808 |-> i] :
        g \in {"memphis", "trap", "lofi", "boom_bap", "drill", "unknownXYZ"},
        b \in {None, Some(140)},
        k \in {"C", "F#m"},
        n \in {1, 2},
        i \in BOOLEAN}

\* generator.generate_beat(genre, bpm, key, bars, include_808)
GenerateBeat ==
    /\ request # None
    /\ request[1].call = "generate_beat"
    /\ results = <<>>
    /\ \E out \in {generate_beat(rng, request[1].genre, request[1].bpm,
                                  request[1].key, request[1].bars,
                                  request[1].include_808)} :
           /\ results' = <<IF out.raised = "" THEN Return(out.value)
                           ELSE Raise(out.raised)>>
           /\ rng' = out.rng
           /\ pattern_builder' = out.pattern_builder
    /\ UNCHANGED request
    /\ UNCHANGED parserVars
    /\ UNCHANGED hostVars

NextBeat == GenerateBeat

InitBeat == InitCall(BeatRequests, RandomStates)

SpecBeat == InitBeat /\ [][NextBeat]_vars

(***************************************************************************)
(* A session on one MusicGenerator: the calls of the request are made one  *)
(* after the other on the same generator, whose pattern_builder attribute  *)
(* and whose random module carry over from one call to the next.           *)
(***************************************************************************)
SessionBeats ==
    {[call |-> "generate_beat", genre |-> g, bpm |-> b, key |-> "C", bars |-> 1,
      include_808 |-> TRUE] :
        g \in {"trap", "lofi"}, b \in {None, Some(140)}}

SessionMelodies ==
    {[call |-> "generate_melody", key |-> k, scale |-> sc, bars |-> 1,
      note_density |-> Number(1, 2), octave |-> o] :
        k \in {"C", "F#m"}, sc \in {"major", "nonesuch"}, o \in {5, 10}}

SessionRequests ==
    {[call |-> "session", calls |-> cs] :
        cs \in UNION {[1..n -> SessionBeats \cup SessionMelodies] : n \in 1..2}}

\* The call the session makes next.
NextCall == request[1].calls[Len(results) + 1]

\* What a call on the generator ends in.
CallOutcome(out) == IF out.raised = "" THEN Return(out.value) ELSE Raise(out.raised)

\* generator.generate_beat(...) as the next call of a session.
SessionGenerateBeat ==
    /\ request # None
    /\ request[1].call = "session"
    /\ Len(results) < Len(request[1].calls)
    /\ NextCall.call = "generate_beat"
    /\ \E out \in {generate_beat(rng, NextCall.genre, NextCall.bpm, NextCall.key,
                                  NextCall.bars, NextCall.include_808)} :
           /\ results' = Append(results, CallOutcome(out))
           /\ rng' = out.rng
           /\ pattern_builder' = out.pattern_builder
    /\ UNCHANGED request
    /\ UNCHANGED parserVars
    /\ UNCHANGED hostVars

\* generator.generate_melody(...) as the next call of a session.
SessionGenerateMelody ==
    /\ request # None
    /\ request[1].call = "session"
    /\ Len(results) < Len(request[1].calls)
    /\ NextCall.call = "generate_melody"
    /\ \E out \in {generate_melody(pattern_builder, rng, NextCall.key,
                                    NextCall.scale, NextCall.bars,
                                    NextCall.note_density, NextCall.octave)} :
           /\ results' = Append(results, CallOutcome(out))
           /\ rng' = out.rng
           /\ pattern_builder' = out.pattern_builder
    /\ UNCHANGED request
    /\ UNCHANGED parserVars
    /\ UNCHANGED hostVars

NextSession == SessionGenerateBeat \/ SessionGenerateMelody

InitSession == InitCall(SessionRequests, RandomStates)

SpecSession == InitSession /\ [][NextSession]_vars

(***************************************************************************)
(* Sample-path resolution: a call of validate_sample_path on a host whose  *)
(* file system holds some of the places the sample may be in.              *)
(***************************************************************************)
SearchDirs == {"/s1", "/s2", "/s2/"}

\* The file systems: the working directory exists, and a file exists only
\* in a directory that exists.
FileSystems ==
    {fs \cup {cwd} :
        fs \in {f \in SUBSET {"/s1", "/s1/a.wav", "/s2/a.wav", "/cwd/a.wav",
                              "/abs/a.wav"} :
                   "/s1/a.wav" \in f => "/s1" \in f}}

ResolveRequests ==
    {[call |-> "validate_sample_path", path |-> Some(p), search_dirs |-> d] :
        p \in {"a.wav", "./a.wav", "/abs/a.wav", "b.wav", ""},
        d \in {None} \cup
              {Some(ds) : ds \in UNION {[1..n -> SearchDirs] : n \in 0..MaxDirs}}}

\* parser.validate_sample_path(path, search_dirs)
ValidateSamplePath ==
    /\ request # None
    /\ request[1].call = "validate_sample_path"
    /\ results = <<>>
    /\ results' = <<validate_sample_path(files, request[1].path,
                                         request[1].search_dirs)>>
    /\ UNCHANGED <<request, rng, pattern_builder>>
    /\ UNCHANGED parserVars
    /\ UNCHANGED hostVars

NextResolve == ValidateSamplePath

InitResolve ==
    /\ line = ""
    /\ parsed = None
    /\ exc = ""
    /\ branch = ""
    /\ pc = "idle"
    /\ request \in {Some(c) : c \in ResolveRequests}
    /\ rng = [tape |-> <<0>>, pos |-> 0]
    /\ pattern_builder = None
    /\ results = <<>>
    /\ files \in FileSystems
    /\ calls = <<>>
    /\ inputs = <<>>

SpecResolve == InitResolve /\ [][NextResolve]_vars

(***************************************************************************)
(* A call of process_command on a sample that exists.                      *)
(***************************************************************************)
\* The operations of the checked lists: the four kinds, a filter type
\* apply_filter passes through, a slice into no parts, an operation of an
\* unknown type and one without a type.
OperationChoices ==
    {[type |-> "pitch_shift", semitones |-> 0 - 3],
     [type |-> "time_stretch", rate |-> Number(82, 100)],
     [type |-> "filter", filter_type |-> "lowpass", cutoff |-> 5000],
     [type |-> "filter", filter_type |-> "bandpass", cutoff |-> 800],
     [type |-> "slice", num_slices |-> 4],
     [type |-> "slice", num_slices |-> 0],
     [type |-> "reverse"],
     [semitones |-> 2]}

\* The methods of the SampleProcessor that fail in a run: none or one.
Failings ==
    {{}} \cup {{fn} : fn \in {"load_sample", "pitch_shift", "time_stretch",
                              "apply_filter", "slice_sample", "save_sample"}}

ProcessRequests ==
    {[call |-> "process_command", file_path |-> "/s1/a.wav", operations |-> ops,
      output_path |-> out] :
        ops \in UNION {[1..n -> OperationChoices] : n \in 0..MaxOps},
        out \in {None, Some("/s1/a_processed.wav")}}

\* sample_processor.process_command(file_path, operations, output_path)
ProcessCommand ==
    /\ request # None
    /\ request[1].call = "process_command"
    /\ results = <<>>
    /\ \E failing \in Failings :
         \E out \in {process_command(files, failing, request[1].file_path,
                                     request[1].operations,
                                     request[1].output_path)} :
           /\ results' = <<IF out.raised = "" THEN Return(out.value)
                           ELSE Raise(out.raised)>>
           /\ calls' = out.trace
           /\ files' = out.files
    /\ UNCHANGED <<request, rng, pattern_builder, inputs>>
    /\ UNCHANGED parserVars

NextProcess == ProcessCommand

InitProcess ==
    /\ line = ""
    /\ parsed = None
    /\ exc = ""
    /\ branch = ""
    /\ pc = "idle"
    /\ request \in {Some(c) : c \in ProcessRequests}
    /\ rng = [tape |-> <<0>>, pos |-> 0]
    /\ pattern_builder = None
    /\ results = <<>>
    /\ files = {cwd, "/s1", "/s1/a.wav"}
    /\ calls = <<>>
    /\ inputs = <<>>

SpecProcess == InitProcess /\ [][NextProcess]_vars

(***************************************************************************)
(* The program run on one command (main with --command), on a host whose   *)
(* samples directory may or may not hold the sample a.wav.                 *)
(***************************************************************************)
HostCommands ==
    {"take a.wav pitch down 3",
     "take a.wav pitch 2 bar 1",
     "take a.wav pitch down 3 slice 4 bar 2",
     "take a.wav slice 4",
     "take b.wav pitch 2 bar 1",
     "sample pitch 2 bar 1",
     "take a.wav stretch 1.2.3",
     "make a trap beat at 140 bpm 1 bars",
     "make a trap beat at 0 bpm",
     "hello"}

HostFileSystems ==
    {{cwd, samples_dir, "/s1/a.wav"}, {cwd, samples_dir, "/cwd/a.wav"},
     {cwd, samples_dir}}

\* The collaborators' methods that fail while a command is executed: none
\* or one.
HostFailings ==
    Failings \cup {{"insert_sample_at_position"}, {"create_pattern"}}

InitHost(lines, consoles) ==
    /\ line \in lines
    /\ parsed = None
    /\ exc = ""
    /\ branch = ""
    /\ pc = "input"
    /\ request = None
    /\ rng \in {[tape |-> <<1, 3, 0, 2>>, pos |-> 0], [tape |-> <<0>>, pos |-> 0]}
    /\ pattern_builder = None
    /\ results = <<>>
    /\ files \in HostFileSystems
    /\ calls = <<>>
    /\ inputs \in consoles

\* Lines 225-233 of main.py: main() with --command: execute_command(command),
\* then close(); an exception that leaves execute_command ends the process
\* with a traceback.
RunCommand ==
    /\ pc = "input"
    /\ \E failing \in HostFailings :
         \E out \in {execute_command(files, rng, pattern_builder, failing, line)} :
           /\ parsed' = out.parsed
           /\ exc' = out.raised
           /\ calls' = out.log
           /\ files' = out.files
           /\ rng' = out.rng
           /\ pattern_builder' = out.pattern_builder
           /\ pc' = IF out.raised = "" THEN "exited" ELSE "crashed"
    /\ branch' = intent_of(normalize(line))
    /\ UNCHANGED <<line, request, results, inputs>>

NextCommand == RunCommand

InitCommand == InitHost(HostCommands, {<<>>})

SpecCommand == InitCommand /\ [][NextCommand]_vars

(***************************************************************************)
(* The interactive session: the loop of interactive_mode reads the lines   *)
(* of the console one by one.  pc is "input" while the loop runs and       *)
(* "ended" once it is left; results holds the lines read so far.           *)
(***************************************************************************)
ConsoleLines ==
    {"take a.wav pitch 2 bar 1",
     "sample pitch 2 bar 1",
     "take a.wav stretch 1.2.3",
     "make a trap beat at 0 bpm",
     "hello", " Exit ", "q", "", "^C"}

Consoles == UNION {[1..n -> ConsoleLines] : n \in 0..MaxInputs}

\* One round of the loop of interactive_mode.
ReadCommand ==
    /\ pc = "input"
    /\ \E failing \in HostFailings :
         \E out \in {interactive_round(files, rng, pattern_builder, failing, inputs)} :
           /\ calls' = out.log
           /\ files' = out.files
           /\ rng' = out.rng
           /\ pattern_builder' = out.pattern_builder
           /\ pc' = IF out.more THEN "input" ELSE "ended"
    /\ line' = IF inputs = <<>> THEN line ELSE Head(inputs)
    /\ inputs' = IF inputs = <<>> THEN inputs ELSE Tail(inputs)
    /\ results' = IF inputs = <<>> THEN results ELSE Append(results, Head(inputs))
    /\ UNCHANGED <<parsed, exc, branch, request>>

NextInteractive == ReadCommand

InitInteractive ==
    /\ line = ""
    /\ parsed = None
    /\ exc = ""
    /\ branch = ""
    /\ pc = "input"
    /\ request = None
    /\ rng = [tape |-> <<1, 3, 0, 2>>, pos |-> 0]
    /\ pattern_builder = None
    /\ results = <<>>
    /\ files \in {{cwd, samples_dir, "/s1/a.wav"}, {cwd, samples_dir}}
    /\ calls = <<>>
    /\ inputs \in Consoles

SpecInteractive == InitInteractive /\ [][NextInteractive]_vars

\* What a round of the loop does to the console: the line at its head is
\* read.
ReadLine == pc = "input" /\ inputs # <<>> /\ inputs' = Tail(inputs)

\* The loop is a while True without a suspension point other than input():
\* as long as it is not left and the console holds a line, the next round is
\* made.
SpecInteractiveLive == SpecInteractive /\ WF_inputs(ReadLine)

(***************************************************************************)
(* Helpers of the properties: what a text holds, read off the text itself. *)
(***************************************************************************)
\* The command parse returned, when it returned one of the given type.
Returned(type) == pc = "done" /\ parsed # None /\ parsed[1].type = type

\* The 0-based position of the first occurrence of sub in s, or -1.
FirstPos(s, sub) ==
    IF Contains(s, sub)
    THEN CHOOSE i \in 0..(Len(s) - Len(sub)) :
            /\ Slice(s, i, i + Len(sub)) = sub
            /\ \A j \in 0..(i - 1) : Slice(s, j, j + Len(sub)) # sub
    ELSE -1

RECURSIVE SkipSpacesBack(_, _)
\* The position reached from i by stepping back over white space.
SkipSpacesBack(s, i) ==
    IF i > 0 /\ IsSpace(CharAt(s, i - 1)) THEN SkipSpacesBack(s, i - 1) ELSE i

RECURSIVE DigitsBack(_, _)
\* The start of the longest run of digits that ends at position j.
DigitsBack(s, j) ==
    IF j > 0 /\ IsDigit(CharAt(s, j - 1)) THEN DigitsBack(s, j - 1) ELSE j

\* The integer written before the first occurrence of word that has one
\* before it (after at least minSpaces white space), None without such.
IntegerBefore(s, word, minSpaces) ==
    LET at == {i \in 0..(Len(s) - Len(word)) :
                 /\ Slice(s, i, i + Len(word)) = word
                 /\ i - SkipSpacesBack(s, i) >= minSpaces
                 /\ DigitsBack(s, SkipSpacesBack(s, i)) < SkipSpacesBack(s, i)}
        i0 == CHOOSE i \in at : \A j \in at : i <= j
    IN  IF at = {} THEN None
        ELSE Some(NatOf(Slice(s, DigitsBack(s, SkipSpacesBack(s, i0)),
                              SkipSpacesBack(s, i0))))

RECURSIVE SkipSpaces(_, _)
\* The position reached from i by stepping forward over white space.
SkipSpaces(s, i) ==
    IF i < Len(s) /\ IsSpace(CharAt(s, i)) THEN SkipSpaces(s, i + 1) ELSE i

\* Whether s holds the word a, white space, and then the word b.
FollowedBy(s, a, b) ==
    \E i \in 0..(Len(s) - Len(a)) :
        /\ Slice(s, i, i + Len(a)) = a
        /\ SkipSpaces(s, i + Len(a)) > i + Len(a)
        /\ Slice(s, SkipSpaces(s, i + Len(a)), SkipSpaces(s, i + Len(a)) + Len(b)) = b

\* The rank of an operation kind in the order the extractions run.
KindRank(type) ==
    CASE type = "pitch_shift"  -> 1
      [] type = "time_stretch" -> 2
      [] type = "filter"       -> 3
      [] type = "slice"        -> 4

\* The pattern of an operation kind.
KindPattern(type) ==
    CASE type = "pitch_shift"  -> patterns.pitch_shift
      [] type = "time_stretch" -> patterns.time_stretch
      [] type = "filter"       -> patterns.filter
      [] type = "slice"        -> patterns.slice

Kinds == {"pitch_shift", "time_stretch", "filter", "slice"}

\* Where the first phrase of a kind starts in the text, -1 without one.
PhraseStart(type, s) ==
    LET m == search(KindPattern(type), s)
    IN  IF m = None THEN -1 ELSE m[1].start

(***************************************************************************)
(* Properties.                                                             *)
(***************************************************************************)
\* C1: parse classifies the lower-cased, trimmed text by keyword presence
\* in a fixed priority order: a text holding take, load, use or sample is
\* SampleProcess (also when it holds create, make or generate), otherwise
\* a text holding create, make or generate is Generate, otherwise Unknown;
\* a returned command is of exactly that variant.
C1_IntentPriority ==
    pc = "done" =>
        LET t         == normalize(line)
            hasSample == \E w \in {"take", "load", "use", "sample"} : Contains(t, w)
            hasCreate == \E w \in {"create", "make", "generate"} : Contains(t, w)
            expected  == IF hasSample THEN "sample_process"
                         ELSE IF hasCreate THEN "generate_beat"
                         ELSE "unknown"
        IN  /\ branch = expected
            /\ exc = "" => parsed # None /\ parsed[1].type = expected

\* C1 witness: a text with a create keyword before a sample keyword was
\* parsed to a SampleProcess command.
C1_Witness ==
    /\ Returned("sample_process")
    /\ FirstPos(normalize(line), "create") >= 0
    /\ FirstPos(normalize(line), "create") < FirstPos(normalize(line), "take")

\* C2: parse returns a command for every text and never raises; a numeric
\* field whose text is no valid number is treated as absent.
C2_NeverRaises == pc = "done" => exc = "" /\ parsed # None

\* C3: for every text in which take, load, use or get is followed by a
\* file name ending in .wav, .mp3, .flac or .aiff, parse yields a
\* SampleProcess command whose sample reference is that file name.
C3_SampleReference ==
    pc = "done" =>
        \A verb \in {"take", "load", "use", "get"} :
            \A file \in {"kick.wav", "x.mp3", "b.flac", "c.aiff"} :
                line = verb \o " " \o file =>
                    /\ Returned("sample_process")
                    /\ parsed[1].sample_path = Some(file)

\* C4: when the first pitch phrase of a SampleProcess text says down, the
\* semitones value is never positive, and it is -N for "pitch down N" with
\* N > 0; in a text without "down" the signed value is kept as written.
C4_PitchDown ==
    Returned("sample_process") =>
        LET t      == normalize(line)
            m      == search(patterns.pitch_shift, t)
            phrase == Slice(t, m[1].start, m[1].end)
            n      == int(group(t, m[1], 1)[1])
            ops    == parsed[1].operations
        IN  m # None =>
                /\ ops # <<>> /\ ops[1].type = "pitch_shift"
                /\ Contains(phrase, "down") =>
                        /\ ops[1].semitones <= 0
                        /\ n > 0 => ops[1].semitones = 0 - n
                /\ ~Contains(t, "down") => ops[1].semitones = n

\* C5: the operations list holds at most one operation of each kind, in
\* the fixed order pitch shift, time stretch, filter, slice: at most 4
\* entries, and a slice is the last entry.
C5_CanonicalOrder ==
    Returned("sample_process") =>
        LET ops == parsed[1].operations
        IN  /\ Len(ops) <= 4
            /\ \A i \in 1..Len(ops) :
                  /\ ops[i].type \in Kinds
                  /\ ops[i].type = "slice" => i = Len(ops)
                  /\ \A j \in (i + 1)..Len(ops) :
                        KindRank(ops[i].type) < KindRank(ops[j].type)

\* C5 witness: a text whose slice phrase comes before its pitch phrase was
\* parsed to a list of all four kinds.
C5_Witness ==
    /\ Returned("sample_process")
    /\ Len(parsed[1].operations) = 4
    /\ PhraseStart("slice", normalize(line))
            < PhraseStart("pitch_shift", normalize(line))

\* C6 as stated: the operations list is ordered as the operation phrases
\* appear in the text, left to right.
C6_TextOrder ==
    Returned("sample_process") =>
        LET ops == parsed[1].operations
        IN  \A i \in 1..Len(ops) : \A j \in (i + 1)..Len(ops) :
                PhraseStart(ops[i].type, normalize(line))
                    < PhraseStart(ops[j].type, normalize(line))

\* C6 amended: of two operation phrases of different kinds that both
\* appear in the text, the one whose kind is extracted first (pitch shift,
\* time stretch, filter, slice) comes earlier in the list, wherever the two
\* stand in the text.
C6_ExtractionOrder ==
    Returned("sample_process") =>
        LET ops   == parsed[1].operations
            start == [k \in Kinds |-> PhraseStart(k, normalize(line))]
        IN  \A k1 \in Kinds : \A k2 \in Kinds :
                /\ KindRank(k1) < KindRank(k2)
                /\ start[k1] >= 0
                /\ start[k2] >= 0
                => \E i \in 1..Len(ops) : \E j \in (i + 1)..Len(ops) :
                       ops[i].type = k1 /\ ops[j].type = k2

\* C6 witness: the filter phrase stands before the stretch phrase in the
\* text, and the time stretch stands before the filter in the list.
C6_Witness ==
    /\ Returned("sample_process")
    /\ PhraseStart("filter", normalize(line)) >= 0
    /\ PhraseStart("filter", normalize(line))
            < PhraseStart("time_stretch", normalize(line))
    /\ \E i \in 1..Len(parsed[1].operations) :
          /\ parsed[1].operations[i].type = "time_stretch"
          /\ i < Len(parsed[1].operations)
          /\ parsed[1].operations[i + 1].type = "filter"

\* C7: when the insert pattern matches, the bar is its N and the beat its
\* M (1 without M) and the measure/bar and beat/count patterns contribute
\* nothing; when neither the insert pattern nor the measure/bar pattern
\* matches, the bar is absent and the beat is 1.
C7_InsertPosition ==
    Returned("sample_process") =>
        LET t       == normalize(line)
            primary == search(patterns.insert_position, t)
            measure == search(patterns.measure_position, t)
            M2      == group(t, primary[1], 2)
        IN  /\ primary # None =>
                /\ parsed[1].insert_bar = Some(int(group(t, primary[1], 1)[1]))
                /\ parsed[1].insert_beat = (IF M2 # None THEN int(M2[1]) ELSE 1)
            /\ primary = None /\ measure = None =>
                /\ parsed[1].insert_bar = None
                /\ parsed[1].insert_beat = 1

C9_KeyFromText ==
    Returned("generate_beat") =>
        \A note \in {"Dm", "F#", "Bbm"} :
            Contains(line, "in key of " \o note) => parsed[1].key = note

\* C10: the genre of a Generate command is one of memphis, trap, lofi,
\* boom_bap, drill; every accepted spelling of boom bap gives boom_bap.
C10_GenreVocabulary ==
    Returned("generate_beat") =>
        parsed[1].genre \in {"memphis", "trap", "lofi", "boom_bap", "drill"}

\* C11: every numeric field of a returned command lies in its range: the
\* insert bar (when present), the insert beat, the bpm (when present), the
\* bar count, the filter cutoff and the slice count are positive integers,
\* and the time-stretch rate is a positive number.
C11_NumericRanges ==
    /\ Returned("sample_process") =>
           /\ parsed[1].insert_bar # None => parsed[1].insert_bar[1] >= 1
           /\ parsed[1].insert_beat >= 1
           /\ \A i \in 1..Len(parsed[1].operations) :
                 LET op == parsed[1].operations[i]
                 IN  /\ op.type = "time_stretch" => op.rate.num > 0
                     /\ op.type = "filter" => op.cutoff >= 1
                     /\ op.type = "slice" => op.num_slices >= 1
    /\ Returned("generate_beat") =>
           /\ parsed[1].bpm # None => parsed[1].bpm[1] >= 1
           /\ parsed[1].bars >= 1

\* C12: a text without intent keyword gives an Unknown command that carries
\* the text exactly as it was passed.
C12_RawText == Returned("unknown") => parsed[1].raw = line

\* The pitch the table of the key resolver gives root letters: C = 60 up to
\* B = 71, a sharp one above its letter and a flat one below, for the
\* seventeen names of the twelve pitches; 60 for anything else.
TablePitch(root) ==
    LET letter == ("C" :> 0) @@ ("D" :> 2) @@ ("E" :> 4) @@ ("F" :> 5)
                      @@ ("G" :> 7) @@ ("A" :> 9) @@ ("B" :> 11)
        l      == CharAt(root, 0)
        a      == CharAt(root, 1)
    IN  IF Len(root) = 1 /\ l \in DOMAIN letter THEN 60 + letter[l]
        ELSE IF Len(root) = 2 /\ a = "#" /\ l \in {"C", "D", "F", "G", "A"}
             THEN 60 + letter[l] + 1
        ELSE IF Len(root) = 2 /\ a = "b" /\ l \in {"D", "E", "G", "A", "B"}
             THEN 60 + letter[l] - 1
        ELSE 60

\* The reference rule of the key resolver applied to the text key.
ReferenceKey(key, fallbackScale) ==
    IF endswith(key, "m")
    THEN <<TablePitch(Slice(key, 0, Len(key) - 1)), "minor">>
    ELSE <<TablePitch(key),
           IF fallbackScale = "minor" THEN "major" ELSE fallbackScale>>

\* The call of _parse_key has returned.
KeyResolved ==
    /\ request # None
    /\ request[1].call = "_parse_key"
    /\ results # <<>>

\* C13 as stated: _parse_key(key, fallbackScale) returns what the reference
\* rule gives for the key string as passed: minor and the key without its
\* m when the key ends in m, else the whole key and major for fallback
\* minor, else the fallback; the root from the table, 60 when unrecognised.
C13_ResolveKey ==
    KeyResolved =>
        /\ results[1].raised = ""
        /\ results[1].value
              = ReferenceKey(request[1].key, request[1].default_scale)

\* C13 amended: _parse_key returns without raising what the reference rule
\* gives for the key with its surrounding white space removed; the root
\* is in 60..71, and ('Dm','major') gives (62,'minor'), ('C','minor')
\* gives (60,'major'), ('F#','major') gives (66,'major').
C13_ResolveKeyTrimmed ==
    KeyResolved =>
        LET key == request[1].key
            d   == request[1].default_scale
            out == results[1]
        IN  /\ out.raised = ""
            /\ out.value = ReferenceKey(strip(key), d)
            /\ out.value[1] \in 60..71
            /\ key = "Dm" /\ d = "major" => out.value = <<62, "minor">>
            /\ key = "C" /\ d = "minor" => out.value = <<60, "major">>
            /\ key = "F#" /\ d = "major" => out.value = <<66, "major">>

\* C13 witness: an unmarked key with default minor was resolved to major,
\* on a root other than C.
C13_Witness ==
    /\ KeyResolved
    /\ request[1].key = "F#"
    /\ request[1].default_scale = "minor"
    /\ results[1].value = <<66, "major">>

\* The number of events of pattern p with the given note at the given time.
CountAt(p, note, time) ==
    Cardinality({i \in 1..Len(p) : p[i].note = note /\ p[i].time = time})

\* The start of grid step step, plus thirds thirds of a step.
StepTime(self, step, thirds) ==
    fmul(Number(3 * step + thirds, 3), self.step_duration)

\* The steps of a bar on which a style always puts the note.
Listed(style, note) ==
    LET every(n) == {s \in 0..15 : s % n = 0}
    IN  CASE style = "trap" ->
               IF note = 36 THEN {0, 6, 10}
               ELSE IF note = 38 THEN {8} ELSE every(2)
          [] style \in {"memphis", "lofi"} ->
               IF note = 36 THEN {0, 8}
               ELSE IF note = 38 THEN {4, 12} ELSE every(2)
          [] style = "boom_bap" ->
               IF note = 36 THEN {0, 10}
               ELSE IF note = 38 THEN {4, 12} ELSE every(4)
          [] OTHER ->
               IF note = 36 THEN every(4)
               ELSE IF note = 38 THEN {4, 12} ELSE every(2)

\* The steps of a bar on which a style may put one more hit of the note.
Optional(style, note, complexity) ==
    IF style = "memphis" /\ note = 36 THEN {12}
    ELSE IF style = "memphis" /\ note = 42 THEN {s \in 0..15 : s % 2 = 1}
    ELSE IF style = "trap" /\ note = 42 /\ flt(Number(6, 10), complexity)
         THEN {7, 15}
    ELSE {}

\* The place of an event on the grid, in thirds of a step from the start
\* of the pattern; -1 for an event off the thirds of the grid.
SlotOf(e, self) ==
    LET q == fmul(e.time, Number(3 * self.step_duration.den,
                                 self.step_duration.num))
    IN  IF q.den = 1 THEN q.num ELSE 0 - 1

\* The notes of a pattern with their places.
Placed(p, self) == {<<p[i].note, SlotOf(p[i], self)>> : i \in 1..Len(p)}

\* Whether pattern p is a drum pattern of the style over bars bars: one
\* event at every listed step, at most one at an optional step, a trap roll
\* as three hi-hats at 0, 1/3 and 2/3 of its step, and nothing else.
FollowsStyle(p, self, style, bars, complexity) ==
    LET steps    == 0..(16 * bars - 1)
        notes    == {36, 38, 42}
        placed   == Placed(p, self)
        listed   == {x \in notes \X {3 * s : s \in steps} :
                        (x[2] \div 3) % 16 \in Listed(style, x[1])}
        optional == {x \in notes \X {3 * s : s \in steps} :
                        (x[2] \div 3) % 16 \in Optional(style, x[1], complexity)}
        rolled   == IF style = "trap"
                    THEN {t \in steps : t % 16 \in Optional(style, 42, complexity)}
                    ELSE {}
    IN  /\ Cardinality(placed) = Len(p)
        /\ listed \subseteq placed
        /\ placed \subseteq listed \cup optional
                         \cup {<<42, 3 * s + k>> : s \in rolled, k \in 1..2}
        /\ \A s \in rolled : \A k \in 1..2 :
              <<42, 3 * s + k>> \in placed <=> <<42, 3 * s>> \in placed

\* The runs of create_drum_pattern made so far.
DrumRuns ==
    IF request # None /\ request[1].call = "create_drum_pattern"
    THEN 1..Len(results) ELSE {}

\* The run of create_drum_pattern that ended last.
LastDrumRun == {k \in DrumRuns : k = Len(results)}

\* C14: every drum pattern holds exactly one event at each listed step of
\* its style in every bar, the optional hits of the style (memphis kick on
\* 12 and odd hi-hats, trap rolls on 7 and 15 for complexity above 0.6) and
\* nothing else; trap with 4 bars and complexity 0.6 has one kick at step 0
\* and one snare at step 8 of every bar.
C14_DrumSteps ==
    \A k \in LastDrumRun :
        LET p    == results[k].value
            self == pattern_builder[1]
            req  == request[1]
        IN  /\ results[k].raised = ""
            /\ FollowsStyle(p, self, lower(req.style), req.bars, req.complexity)
            /\ req.style = "trap" /\ req.bars = 4 /\ req.complexity = Number(6, 10)
                  => \A bar \in 0..3 :
                        /\ CountAt(p, 36, StepTime(self, 16 * bar, 0)) = 1
                        /\ CountAt(p, 38, StepTime(self, 16 * bar + 8, 0)) = 1

\* C14 witness: a trap pattern of complexity 0.7 holds a roll on step 7 and
\* none on step 15.
C14_Witness ==
    /\ DrumRuns # {}
    /\ request[1].style = "trap"
    /\ request[1].complexity = Number(7, 10)
    /\ CountAt(results[1].value, 42, StepTime(pattern_builder[1], 7, 2)) = 1
    /\ CountAt(results[1].value, 42, StepTime(pattern_builder[1], 15, 0)) = 0

\* The total duration of a pattern of bars bars.
TotalDuration(self, bars) ==
    fmul(Float(self.steps_per_bar * bars), self.step_duration)

\* Every event of the run that ended last starts before the total duration.
StartsInSpan ==
    \A k \in LastDrumRun : \A i \in 1..Len(results[k].value) :
        flt(results[k].value[i].time,
            TotalDuration(pattern_builder[1], request[1].bars))

\* C15 as stated: two runs of the drum synthesizer with the same style,
\* complexity, bpm and bar count give the same number of events, and every
\* event starts before steps_per_bar x bars x step_duration.
C15_SameCount ==
    /\ StartsInSpan
    /\ \A k \in DrumRuns : Len(results[k].value) = Len(results[1].value)

\* The number of events a style always emits in a bar, and the number of
\* events its optional hits can add to a bar.
FixedPerBar(style) ==
    Cardinality(Listed(style, 36)) + Cardinality(Listed(style, 38))
        + Cardinality(Listed(style, 42))

OptionalPerBar(style, complexity) ==
    IF style = "trap" THEN 3 * Cardinality(Optional(style, 42, complexity))
    ELSE Cardinality(Optional(style, 36, complexity))
            + Cardinality(Optional(style, 42, complexity))

\* C15 amended: every event starts before the total duration, and the
\* number of events of a run is the fixed count of the style times the bar
\* count plus the optional hits that fired: the same on every run for
\* lofi, boom_bap, the default style and trap up to complexity 0.6, and
\* for memphis and trap above 0.6 at most 9 and 6 more per bar.
C15_CountUpToOptionalHits ==
    /\ StartsInSpan
    /\ \A k \in LastDrumRun :
          LET style == lower(request[1].style)
              fixed == FixedPerBar(style) * request[1].bars
              extra == OptionalPerBar(style, request[1].complexity)
                            * request[1].bars
              n     == Len(results[k].value)
          IN  /\ fixed <= n
              /\ n <= fixed + extra
              /\ style = "trap" => (n - fixed) % 3 = 0
              /\ style \in {"memphis", "trap"}
                    \/ Len(results[k].value) = Len(results[1].value)

\* C15 witness: two runs of the memphis style with the same arguments gave
\* different numbers of events.
C15_Witness ==
    /\ DrumRuns = {1, 2}
    /\ request[1].style = "memphis"
    /\ Len(results[1].value) # Len(results[2].value)

\* The call of create_808_bassline has ended.
BassBuilt ==
    /\ request # None
    /\ request[1].call = "create_808_bassline"
    /\ results # <<>>

\* Whether pattern p holds exactly one event on each of the steps, and
\* every event has a pitch of root plus one of the intervals and lasts
\* halves half steps.
BassOn(p, self, steps, root, intervals, halves) ==
    /\ Len(p) = Cardinality(steps)
    /\ {SlotOf(p[i], self) : i \in 1..Len(p)} = {3 * s : s \in steps}
    /\ \A i \in 1..Len(p) :
          /\ \E k \in 1..Len(intervals) : p[i].note = root + intervals[k]
          /\ p[i].duration = fmul(Number(halves, 2), self.step_duration)

\* C16: the bassline of style simple holds the root on steps 0 and 8 of
\* every bar for 3 steps; bouncy holds root plus one of the first four
\* scale intervals on steps 0, 3, 6, 8, 11, 14 of every bar for 2 steps;
\* rolling holds root plus one of the first three intervals on every even
\* step for 1.5 steps; any other style gives an empty pattern, no error.
C16_BassSteps ==
    BassBuilt =>
        LET req     == request[1]
            self    == pattern_builder[1]
            all     == 0..(16 * req.bars - 1)
            on(pos) == {s \in all : s % 16 \in pos}
            p       == results[1].value
        IN  /\ results[1].raised = ""
            /\ CASE req.pattern_type = "simple" ->
                       BassOn(p, self, on({0, 8}), req.root_note, <<0>>, 6)
                  [] req.pattern_type = "bouncy" ->
                       BassOn(p, self, on({0, 3, 6, 8, 11, 14}), req.root_note,
                              Prefix(req.scale, 4), 4)
                  [] req.pattern_type = "rolling" ->
                       BassOn(p, self, {s \in all : s % 2 = 0}, req.root_note,
                              Prefix(req.scale, 3), 3)
                  [] OTHER -> p = <<>>

\* C16 witness: a bouncy bassline over the major scale holds six notes a
\* bar, one of them on the fourth interval of the scale.
C16_Witness ==
    /\ BassBuilt
    /\ request[1].pattern_type = "bouncy"
    /\ request[1].scale = SCALES.major
    /\ Len(results[1].value) = 6 * request[1].bars
    /\ \E i \in 1..Len(results[1].value) :
          results[1].value[i].note = request[1].root_note + 5

\* Whether an event is a NoteEvent of the data model: pitch and velocity in
\* 0..127, a start that is not negative and a positive duration.
IsNoteEvent(e) ==
    /\ e.note \in 0..127
    /\ e.velocity \in 0..127
    /\ e.time.num >= 0 /\ e.time.den > 0
    /\ e.duration.num > 0 /\ e.duration.den > 0

\* C20: every event of a pattern that the bassline synthesizer returns,
\* whatever the root pitch and the scale, has its pitch in 0..127, its
\* velocity in 0..127, a non-negative start and a positive duration.
C20_NoteEventRanges ==
    BassBuilt =>
        \A i \in 1..Len(results[1].value) : IsNoteEvent(results[1].value[i])

\* The call of combine_patterns has returned.
Combined ==
    /\ request # None
    /\ request[1].call = "combine_patterns"
    /\ results # <<>>

\* The events of a list that start at time t, in their order.
StartingAt(list, t) ==
    LET at(e) == e.time = t
    IN  SelectSeq(list, at)

\* Whether out is the stable merge of the lists: as long as all of them
\* together, non-decreasing in start, and for every start the events of
\* that start in the order of the concatenation of the lists.
IsStableMerge(out, lists) ==
    LET all == extend_all(lists)
    IN  /\ Len(out) = Len(all)
        /\ \A i \in 1..(Len(out) - 1) : ~flt(out[i + 1].time, out[i].time)
        /\ \A i \in 1..Len(all) :
              StartingAt(out, all[i].time) = StartingAt(all, all[i].time)
        /\ \A i \in 1..Len(out) : \E j \in 1..Len(all) : out[i] = all[j]

\* C17: combine returns a list as long as its inputs together, holding
\* exactly their events, non-decreasing in start, with events of equal
\* start in concatenation order (first pattern before second); the call
\* leaves its argument lists as they were.
C17_StableMerge ==
    /\ [](Combined => IsStableMerge(results[1].value, request[1].patterns))
    /\ [][request' = request]_vars

\* C17 witness: two patterns with events of the same start were combined,
\* and the second pattern also holds an event that starts before the last
\* event of the first.
C17_Witness ==
    /\ Combined
    /\ Len(request[1].patterns[1]) = 2
    /\ Len(request[1].patterns[2]) = 2
    /\ request[1].patterns[1][2].time = request[1].patterns[2][2].time
    /\ request[1].patterns[1][2].note # request[1].patterns[2][2].note
    /\ flt(request[1].patterns[2][1].time, request[1].patterns[1][2].time)
    /\ results[1].value[1] = request[1].patterns[2][1]

\* The call of generate_beat has ended.
BeatMade ==
    /\ request # None
    /\ request[1].call = "generate_beat"
    /\ results # <<>>

\* C18: generate_beat with a genre that is not in the template table
\* raises nothing and returns what generate_beat with genre trap returns
\* for the same arguments and the same draws, but for the genre name it
\* echoes: the same bpm (130..150 when absent), scale, root, drum, bass and
\* combined patterns, the drums in the trap style of complexity 0.6.
C18_UnknownGenreIsTrap ==
    BeatMade /\ lower(request[1].genre) \notin DOMAIN GENRE_TEMPLATES =>
        LET req  == request[1]
            trap == generate_beat([rng EXCEPT !.pos = 0], "trap", req.bpm,
                                  req.key, req.bars, req.include_808)
            out  == results[1]
        IN  /\ out.raised = ""
            /\ out.value = [trap.value EXCEPT !.genre = req.genre]
            /\ rng = trap.rng
            /\ pattern_builder = trap.pattern_builder
            /\ req.bpm = None => out.value.bpm \in 130..150
            /\ FollowsStyle(out.value.drum_pattern, pattern_builder[1], "trap",
                            req.bars, Number(6, 10))

\* C18 witness: a beat of an unknown genre without bpm was generated at
\* 150 bpm, the upper end of the trap range, with a bassline.
C18_Witness ==
    /\ BeatMade
    /\ request[1].genre = "unknownXYZ"
    /\ request[1].bpm = None
    /\ results[1].value.bpm = 150
    /\ results[1].value.bass_pattern # <<>>

\* The bass style of a genre, trap's for a genre without template.
BassStyle(genre) ==
    CASE genre \in {"memphis", "lofi", "boom_bap"} -> "simple"
      [] genre = "drill" -> "rolling"
      [] OTHER -> "bouncy"

\* The default scale of a genre, trap's for a genre without template.
DefaultScale(genre) ==
    CASE genre = "lofi" -> "pentatonic_minor"
      [] genre = "drill" -> "harmonic_minor"
      [] OTHER -> "minor"

\* C19: with include_808 the bass pattern of generate_beat is a bassline
\* of the genre's bass style on the resolved root minus 12 over the
\* resolved scale; without it the bass pattern is empty and the combined
\* pattern is the drum pattern, event for event.
C19_BassOnOctaveBelow ==
    BeatMade =>
        LET req      == request[1]
            out      == results[1].value
            self     == pattern_builder[1]
            resolved == ReferenceKey(strip(req.key), DefaultScale(lower(req.genre)))
            style    == BassStyle(lower(req.genre))
            all      == 0..(16 * req.bars - 1)
            on(pos)  == {s \in all : s % 16 \in pos}
            root     == resolved[1] - 12
            scale    == SCALES[resolved[2]]
        IN  /\ results[1].raised = ""
            /\ out.root_note = resolved[1]
            /\ out.scale = resolved[2]
            /\ req.include_808 =>
                  CASE style = "simple" ->
                         BassOn(out.bass_pattern, self, on({0, 8}), root, <<0>>, 6)
                    [] style = "bouncy" ->
                         BassOn(out.bass_pattern, self, on({0, 3, 6, 8, 11, 14}),
                                root, Prefix(scale, 4), 4)
                    [] style = "rolling" ->
                         BassOn(out.bass_pattern, self, {s \in all : s % 2 = 0},
                                root, Prefix(scale, 3), 3)
            /\ ~req.include_808 =>
                  /\ out.bass_pattern = <<>>
                  /\ out.combined_pattern = out.drum_pattern

\* C19 witness: a memphis beat in F#m with bass holds its bass notes on 54,
\* an octave below the root 66, and more combined events than drum events.
C19_Witness ==
    /\ BeatMade
    /\ request[1].genre = "memphis"
    /\ request[1].key = "F#m"
    /\ request[1].include_808
    /\ results[1].value.root_note = 66
    /\ results[1].value.bass_pattern[1].note = 54
    /\ Len(results[1].value.combined_pattern)
            > Len(results[1].value.drum_pattern)


(***************************************************************************)
(* Repeatability of the synthesizers.                                      *)
(***************************************************************************)
\* C21: two runs of a synthesizer call with the same inputs return the same
\* pattern: the same events with the same velocities in the same order.  The
\* inputs are all the arguments the call takes (create_drum_pattern takes a
\* style, a bar count and a complexity, and no seed or random state).
C21_SameInputsSamePattern ==
    /\ request # None
    /\ request[1].call = "create_drum_pattern"
    /\ Len(results) = 2
    => results[1] = results[2]

(***************************************************************************)
(* Calls on one generator.                                                 *)
(***************************************************************************)
\* What a call returns on a generator that has made no call yet, with the
\* random module in state r.
OnFreshGenerator(c, r) ==
    IF c.call = "generate_beat"
    THEN CallOutcome(generate_beat(r, c.genre, c.bpm, c.key, c.bars, c.include_808))
    ELSE CallOutcome(generate_melody(None, r, c.key, c.scale, c.bars,
                                     c.note_density, c.octave))

\* C22: nothing one generation call built persists into a later call: every
\* call of a session returns what the same call returns on a generator that
\* has made no call before, given the same state of the random source.
C22_NothingPersists ==
    [][Len(results') = Len(results) + 1 =>
           results'[Len(results')] = OnFreshGenerator(NextCall, rng)]_vars

(***************************************************************************)
(* Sample-path resolution.                                                 *)
(***************************************************************************)
\* The places validate_sample_path looks in, in the order of the contract:
\* the path itself when it is absolute, each search directory joined with
\* the path in list order, the path under the working directory.
Candidates(path, search_dirs) ==
    LET p == PurePath(path)
        dirs == IF search_dirs = None THEN <<>> ELSE search_dirs[1]
    IN  (IF p.anchor THEN <<p>> ELSE <<>>)
        \o [i \in 1..Len(dirs) |-> joinpath(PurePath(dirs[i]), p)]
        \o <<joinpath(PurePath(cwd), p)>>

Resolved == request # None /\ request[1].call = "validate_sample_path"
            /\ results # <<>>

\* C23: validate_sample_path returns the first of its candidates that
\* exists, the candidates being the path itself when absolute, then each
\* search directory joined with the path in list order, then the path under
\* the working directory; when none exists it returns None; it never raises.
C23_FirstExistingCandidate ==
    Resolved =>
        LET c == Candidates(request[1].path[1], request[1].search_dirs)
            there == {i \in 1..Len(c) : path_str(c[i]) \in files}
        IN  /\ results[1].raised = ""
            /\ there = {} => results[1].value = None
            /\ there # {} =>
                  \E i \in there :
                      /\ \A j \in there : i <= j
                      /\ results[1].value = Some(path_str(c[i]))

\* C23's case: the sample is in the second search directory and under the
\* working directory, not in the first, and the second directory's copy is
\* returned.
C23_Witness ==
    /\ Resolved
    /\ request[1].path = Some("a.wav")
    /\ request[1].search_dirs = Some(<<"/s1", "/s2">>)
    /\ {"/s2/a.wav", "/cwd/a.wav"} \subseteq files
    /\ "/s1/a.wav" \notin files
    /\ results[1] = Return(Some("/s2/a.wav"))

(***************************************************************************)
(* The order of the operations of process_command.                         *)
(***************************************************************************)
Processed == request # None /\ request[1].call = "process_command"
             /\ results # <<>>

IsSlice(op) == "type" \in DOMAIN op /\ op.type = "slice"

\* The position of the first slice operation of ops, 0 when it has none.
FirstSlice(ops) ==
    IF \E i \in 1..Len(ops) : IsSlice(ops[i])
    THEN CHOOSE i \in 1..Len(ops) :
             IsSlice(ops[i]) /\ \A j \in 1..(i - 1) : ~IsSlice(ops[j])
    ELSE 0

\* The operations process_command is to apply: those of a known type, in
\* list order, up to the first slice operation.
Due(ops) ==
    LET known(op) == "type" \in DOMAIN op
                     /\ op.type \in {"pitch_shift", "time_stretch", "filter", "slice"}
        reached   == IF FirstSlice(ops) = 0 THEN ops
                     ELSE SubSeq(ops, 1, FirstSlice(ops))
    IN  SelectSeq(reached, known)

\* The operations the run handed to a method, in the order of the calls.
Handled ==
    LET transform(c) == c.fn \notin {"load_sample", "save_sample"}
        cs == SelectSeq(calls, transform)
    IN  [i \in 1..Len(cs) |-> cs[i].arg]

\* The operations of ops that change the audio: apply_filter does nothing
\* for a filter type other than lowpass and highpass.
Changing(ops) ==
    LET changes(op) == ~IsSlice(op)
                       /\ (op.type = "filter" => op.filter_type \in {"lowpass", "highpass"})
    IN  SelectSeq(ops, changes)

\* C25: process_command applies the operations in list order, each at most
\* once: the operations handed to a method are, in order, the operations of
\* a known type up to the first slice, all of them unless a method raised.
\* When it reaches a slice, no later operation is applied, nothing is saved
\* and the slices of the audio as the earlier operations left it are
\* returned.  An operation of an unknown type is skipped: the only
\* exceptions are those of the method called last.
C25_ListOrderUpToSlice ==
    Processed =>
        LET ops == request[1].operations
            due == Due(ops)
            last == calls[Len(calls)]
        IN  /\ Len(Handled) <= Len(due)
            /\ Handled = SubSeq(due, 1, Len(Handled))
            /\ calls[1].fn = "load_sample"
            /\ results[1].raised = "" => Handled = due
            /\ results[1].raised # "" =>
                  \/ results[1].raised = Failure(last.fn)
                  \/ /\ results[1].raised = "ZeroDivisionError"
                     /\ IsSlice(last.arg) /\ last.arg.num_slices = 0
            /\ FirstSlice(ops) # 0 =>
                  /\ \A i \in 1..Len(calls) : calls[i].fn # "save_sample"
                  /\ files = {cwd, "/s1", "/s1/a.wav"}
                  /\ results[1].raised = "" =>
                        results[1].value =
                            [slices |-> ops[FirstSlice(ops)].num_slices,
                             of |-> [path |-> request[1].file_path,
                                     applied |-> Changing(due)]]

\* C25's case: a pitch shift, then a slice, then a time stretch: the pitch
\* shift is applied, the slices are returned, the stretch is never made.
C25_Witness ==
    /\ Processed
    /\ request[1].operations =
           <<[type |-> "pitch_shift", semitones |-> 0 - 3],
             [type |-> "slice", num_slices |-> 4],
             [type |-> "time_stretch", rate |-> Number(82, 100)]>>
    /\ results[1].raised = ""
    /\ results[1].value.slices = 4
    /\ [i \in 1..Len(calls) |-> calls[i].fn]
           = <<"load_sample", "pitch_shift", "slice_sample">>

(***************************************************************************)
(* The execution of a command.                                             *)
(***************************************************************************)
\* The run of the program on its command has ended, and the command was
\* parsed to one of the given type.
Executed(type) ==
    pc \in {"exited", "crashed"} /\ parsed # None /\ parsed[1].type = type

\* The sample reference of the parsed command resolves to no file: there is
\* no reference, or none of the places it is looked for in exists.
Unresolvable ==
    \/ parsed[1].sample_path = None
    \/ LET c == Candidates(parsed[1].sample_path[1], Some(<<samples_dir>>))
       IN  \A i \in 1..Len(c) : path_str(c[i]) \notin files

\* C24: when the sample reference of a SampleProcess command cannot be
\* resolved, or the text holds none, the command ends in a "not found"
\* report: no exception leaves execute_command, the process is not ended by
\* one, and neither the SampleProcessor nor sample insertion is called.
C24_UnresolvedIsReported ==
    Executed("sample_process") /\ Unresolvable =>
        /\ exc = ""
        /\ pc = "exited"
        /\ \A i \in 1..Len(calls) : calls[i].fn = "print"
        /\ \E i \in 1..Len(calls) : calls[i].arg[1] = "Error: Sample not found"

(***************************************************************************)
(* The interactive session.                                                *)
(***************************************************************************)
\* The round just made reported a failure of the execution of its command.
FailureReported ==
    \E i \in 1..Len(calls) :
        /\ calls[i].fn = "print"
        /\ calls[i].arg[1] \in {"Error processing sample", "Error generating beat",
                                "Error:"}

\* The line is one of the words that end the session.
IsQuit(l) == lower(strip(l)) \in {"quit", "exit", "q"}

\* C26: in the interactive session a failure raised while a command is
\* executed is caught and reported, and the session goes on: the round that
\* reports it leaves the loop running and no exception leaves it, and when
\* the console holds a further line the session reads it.  The lines are
\* read one at a time in the order of the console, and a round ends the
\* session only when its line is quit, exit or q.
C26_SessionSurvivesFailures ==
    /\ [][/\ results' \o inputs' = results \o inputs
          /\ Len(results') <= Len(results) + 1
          /\ exc' = ""
          /\ pc' = "ended" => inputs # <<>> /\ IsQuit(Head(inputs))
          /\ FailureReported' => pc' = "input"]_vars
    /\ \A k \in 0..MaxInputs :
           (pc = "input" /\ FailureReported /\ Len(results) = k /\ inputs # <<>>)
               ~> (Len(results) = k + 1)

\* C26's case: the transform of the first command threw, the failure was
\* reported, and the session has read the next line.
C26_Witness ==
    /\ Len(results) = 2
    /\ results[1] = "take a.wav pitch 2 bar 1"
    /\ results[2] = "make a trap beat at 0 bpm"
    /\ "/s1/a.wav" \in files
    /\ "/s1/a_processed.wav" \notin files
    /\ pc = "input"
    /\ FailureReported

(***************************************************************************)
(* The output file of a SampleProcess command.                             *)
(***************************************************************************)
\* The positions in the log of the calls of the methods named in fns.
CallsOf(fns) == {i \in 1..Len(calls) : calls[i].fn \in fns}

\* The positions in the log of the reports of the given kind.
ReportsOf(kind) ==
    {i \in 1..Len(calls) : calls[i].fn = "print" /\ calls[i].arg[1] = kind}

\* C27: when the operations of a SampleProcess command hold a slice,
\* process_command returns without saving: save_sample is never called and
\* the output path names no file; once process_command has returned the
\* handler all the same reports that path as saved and, for a command with
\* an insert bar, then asks for the insertion of that path.  Without a slice
\* the output file is written exactly once, after the last operation and
\* before any insertion is asked for; only a method that raised before the
\* save leaves it unwritten, and then no insertion is asked for.
C27_SliceReportedSavedUnsaved ==
    Executed("sample_process") /\ CallsOf({"load_sample"}) # {} =>
        LET ops      == parsed[1].operations
            saves    == CallsOf({"save_sample"})
            inserts  == CallsOf({"insert_sample_at_position"})
            applied  == CallsOf({"load_sample", "pitch_shift", "time_stretch",
                                 "apply_filter", "slice_sample"})
            reports  == ReportsOf("Processed sample saved")
            failed   == ReportsOf("Error processing sample")
        IN  /\ Cardinality(saves) <= 1
            /\ Cardinality(reports) <= 1
            /\ Cardinality(inserts) <= 1
            /\ \A a \in applied, i \in saves \cup reports \cup inserts : a < i
            /\ \A i \in saves, j \in reports \cup inserts : i < j
            /\ \A i \in reports, j \in inserts :
                   i < j /\ calls[j].arg.sample_path = calls[i].arg[2]
            /\ inserts # {} => reports # {}
            /\ reports # {} /\ Truthy(parsed[1].insert_bar) => inserts # {}
            /\ reports = {} => failed # {}
            /\ FirstSlice(ops) # 0 =>
                   /\ saves = {}
                   /\ \A i \in reports : calls[i].arg[2] \notin files
                   /\ CallsOf({"slice_sample"}) # {} /\ failed = {} => reports # {}
            /\ FirstSlice(ops) = 0 =>
                   /\ reports # {} => Cardinality(saves) = 1
                   /\ \A i \in saves :
                          /\ Cardinality(applied) = 1 + Len(Due(ops))
                          /\ failed = {} => calls[i].arg \in files
                   /\ saves = {} => failed # {} /\ inserts = {}

\* C27's case: a pitch shift, then a slice, with an insert bar: nothing was
\* saved, the output path names no file, and yet it is reported as saved
\* and its insertion is asked for.
C27_Witness ==
    /\ pc = "exited"
    /\ line = "take a.wav pitch down 3 slice 4 bar 2"
    /\ CallsOf({"pitch_shift"}) # {}
    /\ CallsOf({"slice_sample"}) # {}
    /\ CallsOf({"save_sample"}) = {}
    /\ "/s1/a_processed.wav" \notin files
    /\ \E i \in ReportsOf("Processed sample saved") :
           calls[i].arg[2] = "/s1/a_processed.wav"
    /\ \E i \in CallsOf({"insert_sample_at_position"}) :
           calls[i].arg.sample_path = "/s1/a_processed.wav"
    /\ ReportsOf("Sample inserted") # {}

(***************************************************************************)
(* The lofi drum style.                                                    *)
(***************************************************************************)
\* The request in hand is a lofi drum pattern, and it has been made.
LofiMade ==
    /\ request # None
    /\ request[1].call = "create_drum_pattern"
    /\ request[1].style = "lofi"
    /\ results # <<>>

\* The start time _lofi_pattern computes for a step: odd steps are swung.
LofiTime(self, step) ==
    IF step % 2 = 1
    THEN fadd(fmul(Float(step - 1), self.step_duration),
              fmul(self.step_duration, Number(7, 10)))
    ELSE fmul(Float(step), self.step_duration)

====
